---- MODULE Spec2Model ----
(***************************************************************************)
(* A model of the mpx repository: the covert (LSB) layer that spreads a    *)
(* length-prefixed bit stream over the low bits of the frames of a video,  *)
(* the payload codec (canonical JSON -> deflate -> base64), and the        *)
(* encoder / decoder / verifier pipeline that links the covert layer and   *)
(* the container (atom) layer.                                             *)
(*                                                                         *)
(* Three specifications share the module:                                  *)
(*   SpecCovert   LSBLayer.write / LSBLayer.read on concrete frames        *)
(*   SpecCodec    CompressionUtils.compress_json / decompress_json         *)
(*   SpecPipeline Encoder.encode, Decoder.decode, Verifier.verify          *)
(***************************************************************************)
EXTENDS Integers, Sequences, FiniteSets, TLC

VARIABLES
    \* ---- covert layer (src/layers/LSBLayer.py) ----
    video,          \* the source file: frames and what cv2 reports about it
    source0,        \* history: the source file as it was before the write
    ai_metadata,    \* the byte payload handed to LSBLayer.write
    pc,             \* position inside write / read
    bits_written,   \* LSBLayer.write local
    frame_count,    \* LSBLayer.write local
    temp_dir,       \* the PNG sequence directory: "absent" or the frames saved
    output,         \* the file at output_path: "absent" or its frames
    remux_rc,       \* exit status of the ffmpeg subprocess ("unset", 0, 1)
    w_ret,          \* what write returned or raised
    r_ret,          \* what read returned or raised
    cut,            \* history: the output lost trailing frames after the write
    \* ---- payload codec (src/CompressionUtils.py) ----
    doc,            \* the document handed to compress_json
    level,          \* the compression level handed to compress_json
    blob,           \* what compress_json returned ("unset" before)
    d_ret,          \* what decompress_json returned or raised
    cpc,            \* position: "start", "compressed", "damaged", "decompressed",
                    \* "decompressed_damaged"
    \* ---- pipeline (src/src/MPX*.py, src/temps/temp.py) ----
    variant,        \* the code that runs: "mpx" (src/src) or "mp5" (temps/temp.py)
    video_path,     \* the file handed to encode
    user_metadata,  \* the document handed to encode
    use_lsb,        \* encode argument
    created,        \* what the clock gives encode for "created"
    output_path,    \* the file at output_path: "absent" or a file
    temp_path,      \* the file at output_path + '...lsb_temp.mp4': "absent" or a file
    e_ret,          \* what encode returned or raised, and the documents it built
    v_ret,          \* what the last verify returned
    dec_ret,        \* what the last decode returned or raised
    ppc,            \* position: "start", "file" (a file is there to verify)
    verified0,      \* history: verify said "verified" before the file was altered
    altered         \* history: what was done to the file since ("none", ...)

covertVars == <<video, source0, ai_metadata, pc, bits_written, frame_count,
                temp_dir, output, remux_rc, w_ret, r_ret, cut>>

codecVars == <<doc, level, blob, d_ret, cpc>>

pipeVars == <<variant, video_path, user_metadata, use_lsb, created, output_path,
              temp_path, e_ret, v_ret, dec_ret, ppc, verified0, altered>>

vars == <<covertVars, codecVars, pipeVars>>

-----------------------------------------------------------------------------
(* Bounds of the model *)

MaxFrames == 2
MaxPayloadBytes == 3

(* Program constants *)

HeaderBits == 32
DefaultMaxFrames == 1000
Channels == 3

-----------------------------------------------------------------------------
(* Small helpers on sequences and numbers *)

Min(a, b) == IF a < b THEN a ELSE b

Max(a, b) == IF a > b THEN a ELSE b

\* Python slice s[a:b] with 0 <= a (0-based, end exclusive, clipped to the length)
Slice(s, a, b) ==
    LET hi == Min(b, Len(s))
    IN  IF hi <= a THEN <<>> ELSE [i \in 1..(hi - a) |-> s[a + i]]

RECURSIVE Concat(_)
\* ''.join(ss) / b''.join(ss), joined by halves
Concat(ss) ==
    IF Len(ss) = 0 THEN <<>>
    ELSE IF Len(ss) = 1 THEN ss[1]
    ELSE Concat(SubSeq(ss, 1, Len(ss) \div 2))
             \o Concat(SubSeq(ss, (Len(ss) \div 2) + 1, Len(ss)))

RECURSIVE BinDigits(_)
BinDigits(n) == IF n < 2 THEN <<n>> ELSE BinDigits(n \div 2) \o <<n % 2>>

\* format(n, '0<w>b'): binary digits, most significant first, zero-padded to
\* a MINIMUM width of w (wider numbers keep all their digits)
FormatBin(n, w) ==
    LET d == BinDigits(n)
    IN  IF Len(d) >= w THEN d ELSE [i \in 1..(w - Len(d)) |-> 0] \o d

RECURSIVE IntOfBits(_)
\* int(bits, 2)
IntOfBits(b) ==
    IF b = <<>> THEN 0 ELSE 2 * IntOfBits(SubSeq(b, 1, Len(b) - 1)) + b[Len(b)]

-----------------------------------------------------------------------------
(* UTF-8, as bytes.decode('utf-8') and str.encode('utf-8') do it *)

IsCont(b) == b >= 128 /\ b <= 191

\* The code point and byte length of the sequence starting at b[i], or len 0
\* when the bytes at i are not a valid UTF-8 sequence.
Utf8At(b, i) ==
    LET n  == Len(b)
        b0 == b[i]
        c(k) == b[i + k] - 128
    IN  IF b0 < 128 THEN [len |-> 1, cp |-> b0]
        ELSE IF b0 >= 194 /\ b0 <= 223 /\ i + 1 <= n /\ IsCont(b[i + 1])
            THEN [len |-> 2, cp |-> (b0 - 192) * 64 + c(1)]
        ELSE IF b0 >= 224 /\ b0 <= 239 /\ i + 2 <= n
                /\ IsCont(b[i + 1]) /\ IsCont(b[i + 2])
                /\ (b0 - 224) * 4096 + c(1) * 64 + c(2) >= 2048
                /\ ~ ( (b0 - 224) * 4096 + c(1) * 64 + c(2) >= 55296
                       /\ (b0 - 224) * 4096 + c(1) * 64 + c(2) <= 57343 )
            THEN [len |-> 3, cp |-> (b0 - 224) * 4096 + c(1) * 64 + c(2)]
        ELSE IF b0 >= 240 /\ b0 <= 244 /\ i + 3 <= n
                /\ IsCont(b[i + 1]) /\ IsCont(b[i + 2]) /\ IsCont(b[i + 3])
                /\ (b0 - 240) * 262144 + c(1) * 4096 + c(2) * 64 + c(3) >= 65536
                /\ (b0 - 240) * 262144 + c(1) * 4096 + c(2) * 64 + c(3) <= 1114111
            THEN [len |-> 4,
                  cp |-> (b0 - 240) * 262144 + c(1) * 4096 + c(2) * 64 + c(3)]
        ELSE [len |-> 0, cp |-> 0]

\* One byte of the decoding scan: skip counts the continuation bytes of the
\* sequence in progress (checked when the sequence began).
Utf8Step(st, b, i) ==
    IF st.skip > 0 THEN [st EXCEPT !.skip = st.skip - 1]
    ELSE LET u == Utf8At(b, i)
         IN  IF u.len = 0 THEN [st EXCEPT !.ok = FALSE]
             ELSE [ok |-> TRUE, text |-> Append(st.text, u.cp), skip |-> u.len - 1]

RECURSIVE Utf8DecodeFrom(_, _, _, _)
\* the scan over b[lo..hi] from state st, stopping at the first bad byte
Utf8DecodeFrom(b, lo, hi, st) ==
    IF ~st.ok \/ lo > hi THEN st
    ELSE IF lo = hi THEN Utf8Step(st, b, lo)
    ELSE Utf8DecodeFrom(b, ((lo + hi) \div 2) + 1, hi,
                        Utf8DecodeFrom(b, lo, (lo + hi) \div 2, st))

\* bytes.decode('utf-8'): ok = FALSE stands for UnicodeDecodeError
Utf8Decode(b) ==
    LET st == Utf8DecodeFrom(b, 1, Len(b), [ok |-> TRUE, text |-> <<>>, skip |-> 0])
    IN  [ok |-> st.ok, text |-> IF st.ok THEN st.text ELSE <<>>]

Utf8EncodeChar(cp) ==
    IF cp < 128 THEN <<cp>>
    ELSE IF cp < 2048 THEN <<192 + (cp \div 64), 128 + (cp % 64)>>
    ELSE IF cp < 65536
        THEN <<224 + (cp \div 4096), 128 + ((cp \div 64) % 64), 128 + (cp % 64)>>
    ELSE <<240 + (cp \div 262144), 128 + ((cp \div 4096) % 64),
           128 + ((cp \div 64) % 64), 128 + (cp % 64)>>

\* str.encode('utf-8')
Utf8Encode(text) == Concat([i \in 1..Len(text) |-> Utf8EncodeChar(text[i])])

-----------------------------------------------------------------------------
(* LSBLayer helpers *)

\* a conversion that gives every character seven bits
text_to_binary_SevenBits(text) == Concat([i \in 1..Len(text) |-> FormatBin(text[i], 7)])

\* ''.join(format(ord(c),'08b') for c in text)
text_to_binary(text) == Concat([i \in 1..Len(text) |-> FormatBin(text[i], 8)])

\* chunks of 8 bits; a trailing chunk shorter than 8 is dropped
binary_to_text(binary) ==
    [k \in 1..(Len(binary) \div 8) |-> IntOfBits(Slice(binary, 8 * (k - 1), 8 * k))]

\* an embed that stores the bit as the whole sample
embed_stream_chunk_WholeSample(flat, data_chunk, start_offset) ==
    [p \in 1..Len(flat) |->
        IF p - 1 >= start_offset /\ p - 1 < start_offset + Len(data_chunk)
        THEN data_chunk[p - start_offset]
        ELSE flat[p]]

\* frame with data_chunk written into the low bits from start_offset on;
\* a chunk that does not fit is cut to what fits (nothing, if nothing fits)
embed_stream_chunk(flat, data_chunk, start_offset) ==
    LET chunk_len == IF start_offset + Len(data_chunk) > Len(flat)
                     THEN Len(flat) - start_offset
                     ELSE Len(data_chunk)
    IN  [p \in 1..Len(flat) |->
            IF p - 1 >= start_offset /\ p - 1 < start_offset + chunk_len
            THEN (flat[p] \div 2) * 2 + data_chunk[p - start_offset]
            ELSE flat[p]]

\* ''.join(str(flat[i] & 1) for i in range(a, b)), 0-based
LowBits(flat, a, b) == [i \in 1..(b - a) |-> flat[a + i] % 2]

-----------------------------------------------------------------------------
(* The parts of the state a specification does not run *)

IdleCovert ==
    /\ video = [frames |-> <<>>, width |-> 0, height |-> 0, total_frames |-> 0]
    /\ source0 = video
    /\ ai_metadata = <<>>
    /\ pc = "idle"
    /\ bits_written = 0
    /\ frame_count = 0
    /\ temp_dir = "absent"
    /\ output = "absent"
    /\ remux_rc = "unset"
    /\ w_ret = "none"
    /\ r_ret = [kind |-> "unset"]
    /\ cut = FALSE

IdleCodec ==
    /\ doc = "none"
    /\ level = 0
    /\ blob = "unset"
    /\ d_ret = [kind |-> "unset"]
    /\ cpc = "idle"

IdlePipe ==
    /\ variant = "none"
    /\ video_path = [exists |-> FALSE]
    /\ user_metadata = "none"
    /\ use_lsb = FALSE
    /\ created = <<>>
    /\ output_path = [exists |-> FALSE]
    /\ temp_path = [exists |-> FALSE]
    /\ e_ret = [kind |-> "unset"]
    /\ v_ret = [overall |-> "unset"]
    /\ dec_ret = [kind |-> "unset"]
    /\ ppc = "idle"
    /\ verified0 = FALSE
    /\ altered = "none"

-----------------------------------------------------------------------------
(* The videos and payloads the covert layer is run on *)

\* (width, height) of the frames: 27, 36 and 48 samples per frame
Dims == {<<3, 3>>, <<4, 3>>, <<4, 4>>}

\* pixel content: a pattern that mixes all eight bits, and a constant one
Fills == {0, 1}

Sample(k, f, i) == IF k = 0 THEN (7 * i + 13 * f + 90) % 256 ELSE 254

MkFrame(spf, k, f) == [i \in 1..spf |-> Sample(k, f, i)]

\* total_frames is what CAP_PROP_FRAME_COUNT reports: the container's figure,
\* which may exceed the number of frames cap.read() then yields
Videos ==
    { [frames |-> [f \in 1..n |-> MkFrame(d[1] * d[2] * Channels, k, f)],
       width |-> d[1], height |-> d[2], total_frames |-> t] :
         d \in Dims, k \in Fills, n \in 0..MaxFrames, t \in 0..(MaxFrames + 1) }

SourceVideos ==
    { v \in Videos : \/ v.total_frames = Len(v.frames)
                     \/ Len(v.frames) > 0 /\ v.total_frames = Len(v.frames) + 1 }

\* payload bytes: 'A', and the lead and continuation bytes of U+0080 (194 128)
\* and U+0100 (196 128); sequences over them include text of 8-bit and of
\* 9-bit characters and byte strings that are not UTF-8
PayloadBytes == {65, 194, 196, 128}

RECURSIVE SeqsUpTo(_, _)
SeqsUpTo(S, n) ==
    IF n = 0 THEN {<<>>}
    ELSE LET shorter == SeqsUpTo(S, n - 1)
         IN  shorter \cup { Append(s, x) : s \in {t \in shorter : Len(t) = n - 1}, x \in S }

Payloads == SeqsUpTo(PayloadBytes, MaxPayloadBytes)

-----------------------------------------------------------------------------
(* LSBLayer.write *)

data_str == Utf8Decode(ai_metadata)

data_binary == text_to_binary(data_str.text)

total_bits == Len(data_binary)

bits_per_frame == video.width * video.height * Channels

\* the capacity check with the header left out of the count
CapacityExceeded_NoHeader(tb, bpf, tf) == tb > bpf * tf

\* line 79
CapacityExceeded(tb, bpf, tf) == tb + HeaderBits > bpf * tf

\* a loop body that clears the low bits of the frames after the payload
write_frame_ClearsRest(frame, written, count, binary) ==
    IF written < Len(binary)
    THEN LET flat_len == Len(frame)
             length_bin == FormatBin(Len(binary), HeaderBits)
             f1 == IF count = 0 THEN embed_stream_chunk(frame, length_bin, 0)
                                ELSE frame
             current_pixel_idx == IF count = 0 THEN HeaderBits ELSE 0
             bits_available == flat_len - current_pixel_idx
             bits_needed == Len(binary) - written
             bits_to_write == Min(bits_available, bits_needed)
         IN  IF bits_to_write > 0
             THEN [frame |-> embed_stream_chunk(
                                 f1, Slice(binary, written, written + bits_to_write),
                                 current_pixel_idx),
                   bits_written |-> written + bits_to_write]
             ELSE [frame |-> f1, bits_written |-> written]
    ELSE [frame |-> [p \in 1..Len(frame) |-> (frame[p] \div 2) * 2],
          bits_written |-> written]

\* the body of the frame loop for one frame read from the source
write_frame(frame, written, count, binary) ==
    IF written < Len(binary)
    THEN LET flat_len == Len(frame)
             length_bin == FormatBin(Len(binary), HeaderBits)
             f1 == IF count = 0 THEN embed_stream_chunk(frame, length_bin, 0)
                                ELSE frame
             current_pixel_idx == IF count = 0 THEN HeaderBits ELSE 0
             bits_available == flat_len - current_pixel_idx
             bits_needed == Len(binary) - written
             bits_to_write == Min(bits_available, bits_needed)
         IN  IF bits_to_write > 0
             THEN [frame |-> embed_stream_chunk(
                                 f1, Slice(binary, written, written + bits_to_write),
                                 current_pixel_idx),
                   bits_written |-> written + bits_to_write]
             ELSE [frame |-> f1, bits_written |-> written]
    ELSE [frame |-> frame, bits_written |-> written]

\* lines 63-88: decode the payload, check the capacity, make the temp directory
WriteBegin ==
    /\ pc = "start"
    /\ IF ~data_str.ok \/ CapacityExceeded(total_bits, bits_per_frame, video.total_frames)
       THEN /\ w_ret' = "EncodingError"
            /\ pc' = "raised"
            /\ UNCHANGED temp_dir
       ELSE /\ temp_dir' = <<>>
            /\ pc' = "loop"
            /\ UNCHANGED w_ret
    /\ UNCHANGED <<video, source0, ai_metadata, bits_written, frame_count,
                   output, remux_rc, r_ret, cut>>
    /\ UNCHANGED <<codecVars, pipeVars>>

\* a pass of the loop that embeds the header in frame 0 whatever the payload
WriteFrame_AlwaysHeader ==
    /\ pc = "loop"
    /\ frame_count < Len(video.frames)
    /\ LET step == write_frame(video.frames[frame_count + 1], bits_written,
                               frame_count, data_binary)
       IN  /\ temp_dir' = Append(temp_dir,
                                 IF frame_count = 0
                                 THEN embed_stream_chunk(
                                          step.frame,
                                          FormatBin(total_bits, HeaderBits), 0)
                                 ELSE step.frame)
           /\ bits_written' = step.bits_written
    /\ frame_count' = frame_count + 1
    /\ UNCHANGED <<video, source0, ai_metadata, pc, output, remux_rc, w_ret,
                   r_ret, cut>>
    /\ UNCHANGED <<codecVars, pipeVars>>

\* lines 92-123: one pass of the loop with a frame read
WriteFrame ==
    /\ pc = "loop"
    /\ frame_count < Len(video.frames)
    /\ LET step == write_frame(video.frames[frame_count + 1], bits_written,
                               frame_count, data_binary)
       IN  /\ temp_dir' = Append(temp_dir, step.frame)
           /\ bits_written' = step.bits_written
    /\ frame_count' = frame_count + 1
    /\ UNCHANGED <<video, source0, ai_metadata, pc, output, remux_rc, w_ret,
                   r_ret, cut>>
    /\ UNCHANGED <<codecVars, pipeVars>>

\* lines 94-96, 125: cap.read() reports the end of the source
WriteLoopExit ==
    /\ pc = "loop"
    /\ frame_count = Len(video.frames)
    /\ pc' = "remux"
    /\ UNCHANGED <<video, source0, ai_metadata, bits_written, frame_count,
                   temp_dir, output, remux_rc, w_ret, r_ret, cut>>
    /\ UNCHANGED <<codecVars, pipeVars>>

\* lines 127-155: ffmpeg (its exit status is not looked at), cleanup, return
WriteRemux ==
    /\ pc = "remux"
    /\ \E rc \in {0, 1} :
          /\ remux_rc' = rc
          /\ output' = IF rc = 0 THEN temp_dir ELSE output
    /\ temp_dir' = "absent"
    /\ w_ret' = "True"
    /\ pc' = "done"
    /\ UNCHANGED <<video, source0, ai_metadata, bits_written, frame_count,
                   r_ret, cut>>
    /\ UNCHANGED <<codecVars, pipeVars>>

-----------------------------------------------------------------------------
(* LSBLayer.read *)

ReadNone == [kind |-> "None"]

ReadRaise == [kind |-> "DecodingError"]

ReadBytes(b) == [kind |-> "bytes", data |-> b]

RECURSIVE read_loop(_, _, _, _)
\* lines 198-214: the chunks taken from the frames after frame 0
read_loop(frames, k, bits_read, total_bits_expected) ==
    IF ~(bits_read < total_bits_expected) \/ k > Len(frames) THEN <<>>
    ELSE LET flat == frames[k]
             bits_needed == total_bits_expected - bits_read
             bits_to_take == Min(Len(flat), bits_needed)
         IN  LowBits(flat, 0, bits_to_take)
                 \o read_loop(frames, k + 1, bits_read + bits_to_take,
                              total_bits_expected)

\* a read that takes whatever the first 32 low bits say as the length
LSBLayer_read_NoSanity(frames, max_frames) ==
    IF frames = <<>> THEN ReadNone
    ELSE IF Len(frames[1]) < HeaderBits THEN ReadRaise
    ELSE ReadBytes(Utf8Encode(binary_to_text(
             LowBits(frames[1], HeaderBits,
                     HeaderBits + Min(IntOfBits(LowBits(frames[1], 0, HeaderBits)),
                                      Len(frames[1]) - HeaderBits))
             \o read_loop(frames, 2,
                          Min(IntOfBits(LowBits(frames[1], 0, HeaderBits)),
                              Len(frames[1]) - HeaderBits),
                          IntOfBits(LowBits(frames[1], 0, HeaderBits))))))

\* lines 162-225
LSBLayer_read(frames, max_frames) ==
    IF frames = <<>> THEN ReadNone
    ELSE LET flat == frames[1]
         IN  IF Len(flat) < HeaderBits THEN ReadRaise
             ELSE LET total_bits_expected == IntOfBits(LowBits(flat, 0, HeaderBits))
                  IN  IF total_bits_expected <= 0
                         \/ total_bits_expected > max_frames * Len(flat)
                      THEN ReadNone
                      ELSE LET bits_in_frame0 ==
                                   Min(total_bits_expected, Len(flat) - HeaderBits)
                               chunk0 == LowBits(flat, HeaderBits,
                                                 HeaderBits + bits_in_frame0)
                               full_binary_data ==
                                   chunk0 \o read_loop(frames, 2, bits_in_frame0,
                                                       total_bits_expected)
                           IN  ReadBytes(Utf8Encode(binary_to_text(full_binary_data)))

FramesOf(file) == IF file = "absent" THEN <<>> ELSE file

\* read of the file at output_path, once write has returned
Read ==
    /\ pc = "done"
    /\ r_ret' = LSBLayer_read(FramesOf(output), DefaultMaxFrames)
    /\ pc' = "read"
    /\ UNCHANGED <<video, source0, ai_metadata, bits_written, frame_count,
                   temp_dir, output, remux_rc, w_ret, cut>>
    /\ UNCHANGED <<codecVars, pipeVars>>

\* environment: the written file loses its last frame (a cut or partial copy)
Truncate ==
    /\ pc = "done"
    /\ output # "absent"
    /\ Len(output) > 0
    /\ output' = SubSeq(output, 1, Len(output) - 1)
    /\ cut' = TRUE
    /\ UNCHANGED <<video, source0, ai_metadata, pc, bits_written, frame_count,
                   temp_dir, remux_rc, w_ret, r_ret>>
    /\ UNCHANGED <<codecVars, pipeVars>>

InitCovert ==
    /\ video \in SourceVideos
    /\ source0 = video
    /\ ai_metadata \in Payloads
    /\ pc = "start"
    /\ bits_written = 0
    /\ frame_count = 0
    /\ temp_dir = "absent"
    /\ output = "absent"
    /\ remux_rc = "unset"
    /\ w_ret = "none"
    /\ r_ret = [kind |-> "unset"]
    /\ cut = FALSE
    /\ IdleCodec
    /\ IdlePipe

NextCovert ==
    \/ WriteBegin
    \/ WriteFrame
    \/ WriteLoopExit
    \/ WriteRemux
    \/ Read
    \/ Truncate

SpecCovert == InitCovert /\ [][NextCovert]_vars

-----------------------------------------------------------------------------
(* Claims about the covert layer *)

\* the capacity the write computes: reported frame count x samples per frame
totalCapacity == bits_per_frame * video.total_frames

\* the samples of a file that can carry payload bits
RECURSIVE SumLen(_)
SumLen(frames) == IF frames = <<>> THEN 0 ELSE Len(Head(frames)) + SumLen(Tail(frames))

\* C1: for every byte payload p and every video with
\* 0 < bits(p) + 32 <= frameCount x samplesPerFrame, the covert write of p
\* succeeds and the covert read of its losslessly stored output returns p.
C1_RoundTripEveryPayload ==
    ( /\ 0 < 8 * Len(ai_metadata) + HeaderBits
      /\ 8 * Len(ai_metadata) + HeaderBits <= Len(video.frames) * bits_per_frame )
    => /\ pc # "raised"
       /\ (pc = "read" /\ remux_rc = 0 /\ ~cut) => r_ret = ReadBytes(ai_metadata)

\* C2: a payload whose bit stream has L = totalCapacity - 32 bits (or fewer) is
\* accepted and the write returns True; with L > totalCapacity - 32 the write
\* raises EncodingError before the temp directory exists, before any frame is
\* read or saved, with no output file and with the source file as it was.
C2_CapacityBoundary ==
    (pc # "start" /\ data_str.ok) =>
        /\ (total_bits + HeaderBits <= totalCapacity) =>
              /\ pc # "raised"
              /\ w_ret # "EncodingError"
              /\ pc \in {"done", "read"} => w_ret = "True"
        /\ (total_bits + HeaderBits > totalCapacity) =>
              /\ pc = "raised"
              /\ w_ret = "EncodingError"
              /\ temp_dir = "absent"
              /\ output = "absent"
              /\ frame_count = 0
              /\ bits_written = 0
              /\ video = source0

\* a write of exactly totalCapacity - 32 bits that returned True
C2_Witness ==
    /\ pc = "done"
    /\ data_str.ok
    /\ total_bits > 0
    /\ total_bits + HeaderBits = totalCapacity
    /\ w_ret = "True"
    /\ bits_written = total_bits

\* C8: when the header of the file declares L bits and the frames of the file
\* hold fewer than L payload samples, the covert read raises DecodingError.
C8_TruncatedReadRaises ==
    ( /\ pc = "read"
      /\ FramesOf(output) # <<>>
      /\ Len(FramesOf(output)[1]) >= HeaderBits
      /\ LET L == IntOfBits(LowBits(FramesOf(output)[1], 0, HeaderBits))
         IN  /\ L > 0
             /\ L <= DefaultMaxFrames * Len(FramesOf(output)[1])
             /\ SumLen(FramesOf(output)) - HeaderBits < L )
    => r_ret = ReadRaise

-----------------------------------------------------------------------------
(* JSON values.  A value is a tagged record; a mapping keeps its pairs in  *)
(* insertion order, as a Python dict does, and two mappings are the same   *)
(* document when their canonical (key-sorted) forms are equal.  Text is a  *)
(* sequence of code points.                                                *)

JNull == [t |-> "null", v |-> 0]

JBool(b) == [t |-> "bool", v |-> b]

JNum(n) == [t |-> "num", v |-> n]

\* the float m / 10^e, with m not a multiple of 10 unless e = 0
JFloat(m, e) == [t |-> "float", v |-> <<m, e>>]

JStr(cps) == [t |-> "str", v |-> cps]

JList(items) == [t |-> "list", v |-> items]

\* pairs: a sequence of <<key text, value>> with distinct keys
JMap(pairs) == [t |-> "map", v |-> pairs]

RECURSIVE LexLess(_, _)
\* str < str in Python: code point order
LexLess(a, b) ==
    IF b = <<>> THEN FALSE
    ELSE IF a = <<>> THEN TRUE
    ELSE IF Head(a) # Head(b) THEN Head(a) < Head(b)
    ELSE LexLess(Tail(a), Tail(b))

RECURSIVE InsertPair(_, _)
InsertPair(sorted, pr) ==
    IF sorted = <<>> THEN <<pr>>
    ELSE IF LexLess(pr[1], Head(sorted)[1]) THEN <<pr>> \o sorted
    ELSE <<Head(sorted)>> \o InsertPair(Tail(sorted), pr)

RECURSIVE SortPairs(_)
\* sorted(dct.items()): the pairs in key order
SortPairs(pairs) ==
    IF pairs = <<>> THEN <<>>
    ELSE InsertPair(SortPairs(SubSeq(pairs, 1, Len(pairs) - 1)), pairs[Len(pairs)])

\* the pairs as json.dumps without sort_keys walks them
KeepPairs(pairs) == pairs

RECURSIVE Canon(_)
RECURSIVE CanonPairs(_)
RECURSIVE CanonItems(_)

\* the pairs in key order, each value in canonical form
CanonPairs(pairs) ==
    IF pairs = <<>> THEN <<>>
    ELSE InsertPair(CanonPairs(SubSeq(pairs, 1, Len(pairs) - 1)),
                    <<pairs[Len(pairs)][1], Canon(pairs[Len(pairs)][2])>>)

CanonItems(items) ==
    IF items = <<>> THEN <<>> ELSE <<Canon(Head(items))>> \o CanonItems(Tail(items))

\* the canonical form of a document: every mapping in key order
Canon(x) ==
    IF x.t = "map" THEN JMap(CanonPairs(x.v))
    ELSE IF x.t = "list" THEN JList(CanonItems(x.v))
    ELSE x

RECURSIVE DecDigits(_)
\* str(n) for n >= 0, as character codes
DecDigits(n) ==
    IF n < 10 THEN <<48 + n>> ELSE DecDigits(n \div 10) \o <<48 + (n % 10)>>

Abs(n) == IF n < 0 THEN -n ELSE n

RECURSIVE Pow10(_)
Pow10(e) == IF e = 0 THEN 1 ELSE 10 * Pow10(e - 1)

\* frac digits of m / 10^e, zero-padded on the left to e digits
FracDigits(m, e) ==
    LET d == DecDigits(Abs(m) % Pow10(e))
    IN  [i \in 1..(e - Len(d)) |-> 48] \o d

\* float.__repr__ in the range where it is plain decimal notation
FloatRepr(m, e) ==
    (IF m < 0 THEN <<45>> ELSE <<>>)
        \o DecDigits(Abs(m) \div Pow10(e)) \o <<46>>
        \o (IF e = 0 THEN <<48>> ELSE FracDigits(m, e))

HexDigit(n) == IF n < 10 THEN 48 + n ELSE 87 + n

\* '\\u{0:04x}'
EscU(n) ==
    <<92, 117, HexDigit(n \div 4096), HexDigit((n \div 256) % 16),
      HexDigit((n \div 16) % 16), HexDigit(n % 16)>>

\* json.encoder.py_encode_basestring_ascii, one character
EscChar(c) ==
    IF c = 34 THEN <<92, 34>>
    ELSE IF c = 92 THEN <<92, 92>>
    ELSE IF c = 10 THEN <<92, 110>>
    ELSE IF c = 13 THEN <<92, 114>>
    ELSE IF c = 9 THEN <<92, 116>>
    ELSE IF c = 8 THEN <<92, 98>>
    ELSE IF c = 12 THEN <<92, 102>>
    ELSE IF c >= 32 /\ c < 127 THEN <<c>>
    ELSE IF c < 65536 THEN EscU(c)
    ELSE EscU(55296 + ((c - 65536) \div 1024)) \o EscU(56320 + ((c - 65536) % 1024))

JsonString(cps) == <<34>> \o Concat([i \in 1..Len(cps) |-> EscChar(cps[i])]) \o <<34>>

RECURSIVE JoinWith(_, _)
\* sep.join(parts)
JoinWith(parts, sep) ==
    IF parts = <<>> THEN <<>>
    ELSE IF Len(parts) = 1 THEN parts[1]
    ELSE parts[1] \o sep \o JoinWith(Tail(parts), sep)

\* how json.dumps(..., sort_keys=True) orders the pairs of a mapping
DumpOrder(pairs) == SortPairs(pairs)

RECURSIVE JsonEncode(_, _, _)
\* json.dumps(x, separators=(item_sep, key_sep), sort_keys=True)
JsonEncode(x, item_sep, key_sep) ==
    IF x.t = "null" THEN <<110, 117, 108, 108>>
    ELSE IF x.t = "bool"
        THEN (IF x.v THEN <<116, 114, 117, 101>> ELSE <<102, 97, 108, 115, 101>>)
    ELSE IF x.t = "num"
        THEN (IF x.v < 0 THEN <<45>> ELSE <<>>) \o DecDigits(Abs(x.v))
    ELSE IF x.t = "float" THEN FloatRepr(x.v[1], x.v[2])
    ELSE IF x.t = "str" THEN JsonString(x.v)
    ELSE IF x.t = "list"
        THEN <<91>>
             \o JoinWith([i \in 1..Len(x.v) |-> JsonEncode(x.v[i], item_sep, key_sep)],
                         item_sep)
             \o <<93>>
    ELSE LET ps == DumpOrder(x.v)
         IN  <<123>>
             \o JoinWith([i \in 1..Len(ps) |->
                    JsonString(ps[i][1]) \o key_sep
                        \o JsonEncode(ps[i][2], item_sep, key_sep)], item_sep)
             \o <<125>>

\* json.dumps(data, separators=(',',':'), sort_keys=True)
json_dumps(x) == JsonEncode(x, <<44>>, <<58>>)

\* json.dumps(data, sort_keys=True): the default separators ', ' and ': '
json_dumps_default(x) == JsonEncode(x, <<44, 32>>, <<58, 32>>)

-----------------------------------------------------------------------------
(* json.loads (json.decoder / json.scanner), on a sequence of code points. *)
(* A parse result is [ok, val, next]: next is the index after the value.   *)
(* Exponent notation and the NaN / Infinity literals are outside the       *)
(* numbers json_dumps produces here and are read as errors.                *)

JErr(i) == [ok |-> FALSE, val |-> JNull, next |-> i]

JOk(v, i) == [ok |-> TRUE, val |-> v, next |-> i]

RECURSIVE SkipWs(_, _)
SkipWs(s, i) ==
    IF i <= Len(s) /\ s[i] \in {32, 9, 10, 13} THEN SkipWs(s, i + 1) ELSE i

IsDigit(c) == c >= 48 /\ c <= 57

HexVal(c) ==
    IF c >= 48 /\ c <= 57 THEN c - 48
    ELSE IF c >= 97 /\ c <= 102 THEN c - 87
    ELSE IF c >= 65 /\ c <= 70 THEN c - 55
    ELSE -1

\* the value of the four hex digits at s[i..i+3], or -1
Hex4At(s, i) ==
    IF i + 3 <= Len(s) /\ \A k \in 0..3 : HexVal(s[i + k]) >= 0
    THEN HexVal(s[i]) * 4096 + HexVal(s[i + 1]) * 256
             + HexVal(s[i + 2]) * 16 + HexVal(s[i + 3])
    ELSE -1

SErr(i) == [ok |-> FALSE, val |-> <<>>, next |-> i]

\* a \uXXXX escape at s[i] with value h, and the value h2 of a \uXXXX that
\* follows it (or -1): a surrogate pair is one character
EscapeU(i, h, h2) ==
    IF h < 0 THEN [ok |-> FALSE, val |-> 0, next |-> i]
    ELSE IF h >= 55296 /\ h <= 56319 /\ h2 >= 56320 /\ h2 <= 57343
        THEN [ok |-> TRUE, val |-> 65536 + (h - 55296) * 1024 + (h2 - 56320),
              next |-> i + 12]
    ELSE [ok |-> TRUE, val |-> h, next |-> i + 6]

\* the escape whose letter is e, at the backslash s[i]
EscapeOf(s, i, e) ==
    IF e \in {34, 92, 47} THEN [ok |-> TRUE, val |-> e, next |-> i + 2]
    ELSE IF e = 98 THEN [ok |-> TRUE, val |-> 8, next |-> i + 2]
    ELSE IF e = 102 THEN [ok |-> TRUE, val |-> 12, next |-> i + 2]
    ELSE IF e = 110 THEN [ok |-> TRUE, val |-> 10, next |-> i + 2]
    ELSE IF e = 114 THEN [ok |-> TRUE, val |-> 13, next |-> i + 2]
    ELSE IF e = 116 THEN [ok |-> TRUE, val |-> 9, next |-> i + 2]
    ELSE IF e = 117
        THEN EscapeU(i, Hex4At(s, i + 2),
                     IF i + 7 <= Len(s) /\ s[i + 6] = 92 /\ s[i + 7] = 117
                     THEN Hex4At(s, i + 8) ELSE -1)
    ELSE [ok |-> FALSE, val |-> 0, next |-> i]

\* one escape sequence starting at the backslash s[i]: [ok, val, next]
ParseEscape(s, i) ==
    IF i + 1 > Len(s) THEN [ok |-> FALSE, val |-> 0, next |-> i]
    ELSE EscapeOf(s, i, s[i + 1])

\* the least element of a non-empty set of numbers
MinOf(S) == CHOOSE j \in S : \A k \in S : j <= k

\* the index of the first character from s[i] on that ends a run of plain
\* characters (a quote, a backslash, a control character), or Len(s) + 1
PlainEnd(s, i) ==
    MinOf({j \in i..Len(s) : s[j] = 34 \/ s[j] = 92 \/ s[j] < 32} \cup {Len(s) + 1})

\* the characters read so far in front of the rest of a string
StringCons(prefix, rest) ==
    [ok |-> rest.ok, val |-> prefix \o rest.val, next |-> rest.next]

RECURSIVE ParseStringBody(_, _)
RECURSIVE StringAfter(_, _, _, _)
RECURSIVE StringRun(_, _, _)

\* the string from s[i] on: plain up to the escape at s[j], which was read as one
StringAfter(s, i, j, one) ==
    IF ~one.ok THEN SErr(i)
    ELSE StringCons(Append(SubSeq(s, i, j - 1), one.val), ParseStringBody(s, one.next))

\* the string from s[i] on, plain up to s[j]
StringRun(s, i, j) ==
    IF j > Len(s) THEN SErr(i)
    ELSE IF s[j] = 34 THEN [ok |-> TRUE, val |-> SubSeq(s, i, j - 1), next |-> j + 1]
    ELSE IF s[j] = 92 THEN StringAfter(s, i, j, ParseEscape(s, j))
    ELSE SErr(i)

\* py_scanstring, from the character after the opening quote
ParseStringBody(s, i) == StringRun(s, i, PlainEnd(s, i))

\* the index after the run of digits starting at i
DigitsEnd(s, i) == MinOf({j \in i..Len(s) : ~IsDigit(s[j])} \cup {Len(s) + 1})

RECURSIVE DigitsVal(_, _, _)
\* int(s[a..b-1])
DigitsVal(s, a, b) ==
    IF b <= a THEN 0 ELSE 10 * DigitsVal(s, a, b - 1) + (s[b - 1] - 48)

RECURSIVE NormFloat(_, _)
NormFloat(m, e) == IF e > 0 /\ m % 10 = 0 THEN NormFloat(m \div 10, e - 1) ELSE JFloat(m, e)

\* the number with sign sgn, integer part ip and nfrac fraction digits fp
\* (nfrac < 1: no fraction, an int), ending before s[c]
NumberVal(sgn, ip, fp, nfrac, c) ==
    IF nfrac > 0 THEN JOk(NormFloat(sgn * (ip * Pow10(nfrac) + fp), nfrac), c)
    ELSE JOk(JNum(sgn * ip), c)

\* integer digits s[a..b-1], fraction (if any) s[b+1..c-1]
NumberFrac(s, i, a, b, c) ==
    IF c <= Len(s) /\ s[c] \in {101, 69} THEN JErr(i)
    ELSE NumberVal(IF s[i] = 45 THEN -1 ELSE 1, DigitsVal(s, a, b),
                   DigitsVal(s, b + 1, c), c - b - 1, c)

NumberInt(s, i, a, b) ==
    NumberFrac(s, i, a, b,
               IF b + 1 <= Len(s) /\ s[b] = 46 /\ IsDigit(s[b + 1])
               THEN DigitsEnd(s, b + 1) ELSE b)

NumberFrom(s, i, a) ==
    IF a > Len(s) \/ ~IsDigit(s[a]) THEN JErr(i)
    ELSE NumberInt(s, i, a, IF s[a] = 48 THEN a + 1 ELSE DigitsEnd(s, a))

\* NUMBER_RE: (-?(?:0|[1-9]\d*))(\.\d+)?([eE][-+]?\d+)?
ParseNumber(s, i) == NumberFrom(s, i, IF s[i] = 45 THEN i + 1 ELSE i)

\* s[i..] starts with the literal w
Starts(s, i, w) == i + Len(w) - 1 <= Len(s) /\ \A k \in 1..Len(w) : s[i + k - 1] = w[k]

RECURSIVE DictPut(_, _)
\* d[key] = value: a key already there keeps its place and takes the new value
DictPut(pairs, pr) ==
    IF pairs = <<>> THEN <<pr>>
    ELSE IF Head(pairs)[1] = pr[1] THEN <<pr>> \o Tail(pairs)
    ELSE <<Head(pairs)>> \o DictPut(Tail(pairs), pr)

RECURSIVE DictOf(_)
DictOf(pairs) ==
    IF pairs = <<>> THEN <<>>
    ELSE DictPut(DictOf(SubSeq(pairs, 1, Len(pairs) - 1)), pairs[Len(pairs)])

RECURSIVE ParseValue(_, _)
RECURSIVE ParseElems(_, _)
RECURSIVE ParseMembers(_, _)
RECURSIVE ElemsNext(_, _, _, _)
RECURSIVE ElemsAfter(_, _, _)
RECURSIVE MembersNext(_, _, _, _, _)
RECURSIVE MembersAfter(_, _, _, _)
RECURSIVE MemberColon(_, _, _, _)
RECURSIVE MemberKey(_, _, _)
RECURSIVE ObjectFrom(_, _, _)
RECURSIVE ArrayFrom(_, _, _)

\* the item x in front of the rest of an array or object
ItemCons(x, rest) == [ok |-> rest.ok, val |-> <<x>> \o rest.val, next |-> rest.next]

\* the array whose element v was read, with s[j] the next token
ElemsNext(s, i, v, j) ==
    IF j > Len(s) THEN SErr(i)
    ELSE IF s[j] = 93 THEN [ok |-> TRUE, val |-> <<v.val>>, next |-> j + 1]
    ELSE IF s[j] = 44 THEN ItemCons(v.val, ParseElems(s, SkipWs(s, j + 1)))
    ELSE SErr(i)

ElemsAfter(s, i, v) == IF ~v.ok THEN SErr(i) ELSE ElemsNext(s, i, v, SkipWs(s, v.next))

\* JSONArray, from the first element: val is the sequence of elements
ParseElems(s, i) == ElemsAfter(s, i, ParseValue(s, i))

\* the object whose member k : v was read, with s[j] the next token
MembersNext(s, i, k, v, j) ==
    IF j > Len(s) THEN SErr(i)
    ELSE IF s[j] = 125 THEN [ok |-> TRUE, val |-> << <<k.val, v.val>> >>, next |-> j + 1]
    ELSE IF s[j] = 44
        THEN ItemCons(<<k.val, v.val>>, ParseMembers(s, SkipWs(s, j + 1)))
    ELSE SErr(i)

MembersAfter(s, i, k, v) ==
    IF ~v.ok THEN SErr(i) ELSE MembersNext(s, i, k, v, SkipWs(s, v.next))

\* the member whose key k was read, with s[j] the next token
MemberColon(s, i, k, j) ==
    IF j > Len(s) \/ s[j] # 58 THEN SErr(i)
    ELSE MembersAfter(s, i, k, ParseValue(s, SkipWs(s, j + 1)))

MemberKey(s, i, k) == IF ~k.ok THEN SErr(i) ELSE MemberColon(s, i, k, SkipWs(s, k.next))

\* JSONObject, from the quote of the first key: val is the sequence of pairs
ParseMembers(s, i) ==
    IF i > Len(s) \/ s[i] # 34 THEN SErr(i)
    ELSE MemberKey(s, i, ParseStringBody(s, i + 1))

\* what the scanner returns for the string, the members, the elements read
StrResult(i, r) == IF r.ok THEN JOk(JStr(r.val), r.next) ELSE JErr(i)

MapResult(i, r) == IF r.ok THEN JOk(JMap(DictOf(r.val)), r.next) ELSE JErr(i)

ListResult(i, r) == IF r.ok THEN JOk(JList(r.val), r.next) ELSE JErr(i)

\* the object opened at s[i], with s[j] the token after the brace
ObjectFrom(s, i, j) ==
    IF j <= Len(s) /\ s[j] = 125 THEN JOk(JMap(<<>>), j + 1)
    ELSE MapResult(i, ParseMembers(s, j))

\* the array opened at s[i], with s[j] the token after the bracket
ArrayFrom(s, i, j) ==
    IF j <= Len(s) /\ s[j] = 93 THEN JOk(JList(<<>>), j + 1)
    ELSE ListResult(i, ParseElems(s, j))

\* scanner.py_make_scanner._scan_once
ParseValue(s, i) ==
    IF i > Len(s) THEN JErr(i)
    ELSE IF s[i] = 34 THEN StrResult(i, ParseStringBody(s, i + 1))
    ELSE IF s[i] = 123 THEN ObjectFrom(s, i, SkipWs(s, i + 1))
    ELSE IF s[i] = 91 THEN ArrayFrom(s, i, SkipWs(s, i + 1))
    ELSE IF Starts(s, i, <<110, 117, 108, 108>>) THEN JOk(JNull, i + 4)
    ELSE IF Starts(s, i, <<116, 114, 117, 101>>) THEN JOk(JBool(TRUE), i + 4)
    ELSE IF Starts(s, i, <<102, 97, 108, 115, 101>>) THEN JOk(JBool(FALSE), i + 5)
    ELSE IF s[i] = 45 \/ IsDigit(s[i]) THEN ParseNumber(s, i)
    ELSE JErr(i)

\* the result of loads for the value r read from the start of s
LoadsResult(s, r) ==
    IF r.ok /\ SkipWs(s, r.next) > Len(s) THEN [ok |-> TRUE, val |-> r.val]
    ELSE [ok |-> FALSE, val |-> JNull]

\* json.loads(text): ok = FALSE stands for json.JSONDecodeError
json_loads(s) == LoadsResult(s, ParseValue(s, SkipWs(s, 1)))

-----------------------------------------------------------------------------
(* zlib.compress / zlib.decompress (RFC 1950).  The deflate body is        *)
(* written as one stored block (RFC 1951, BTYPE = 00): the stream is one   *)
(* zlib accepts and returns the data of, and the size the real encoder     *)
(* reaches is not modelled.  ok = FALSE stands for zlib.error.             *)

\* the FLG byte zlib writes after CMF = 0x78 for each level
ZlibFlg(lv) == IF lv <= 1 THEN 1 ELSE IF lv <= 5 THEN 94 ELSE IF lv = 6 THEN 156 ELSE 218

RECURSIVE SumSeq(_)
SumSeq(s) ==
    IF Len(s) = 0 THEN 0
    ELSE IF Len(s) = 1 THEN s[1]
    ELSE SumSeq(SubSeq(s, 1, Len(s) \div 2))
             + SumSeq(SubSeq(s, (Len(s) \div 2) + 1, Len(s)))

\* the two 16-bit halves <<a, b>> of adler32(data): a is 1 plus the bytes,
\* b the sum of the values a takes after each byte, both modulo 65521
AdlerAB(data) ==
    LET n == Len(data)
    IN  << (1 + SumSeq(data)) % 65521,
           (n + SumSeq([i \in 1..n |-> (n - i + 1) * data[i]])) % 65521 >>

\* adler32(data), as the four bytes that end the stream (big-endian)
Adler32Bytes(data) ==
    LET ab == AdlerAB(data)
    IN  <<ab[2] \div 256, ab[2] % 256, ab[1] \div 256, ab[1] % 256>>

zlib_compress(data, lv) ==
    <<120, ZlibFlg(lv)>>
        \o <<1, Len(data) % 256, Len(data) \div 256,
             255 - (Len(data) % 256), 255 - (Len(data) \div 256)>>
        \o data \o Adler32Bytes(data)

zlib_decompress(z) ==
    LET bad == [ok |-> FALSE, data |-> <<>>]
    IN  IF Len(z) < 7 THEN bad
        ELSE IF z[1] % 16 # 8 \/ z[1] \div 16 > 7 \/ (z[1] * 256 + z[2]) % 31 # 0
                \/ (z[2] \div 32) % 2 = 1 THEN bad
        ELSE IF z[3] # 1 THEN bad
        ELSE LET n == z[4] + 256 * z[5]
             IN  IF z[6] # 255 - z[4] \/ z[7] # 255 - z[5] THEN bad
                 ELSE IF Len(z) < 7 + n + 4 THEN bad
                 ELSE LET data == SubSeq(z, 8, 7 + n)
                      IN  IF SubSeq(z, 8 + n, 11 + n) # Adler32Bytes(data) THEN bad
                          ELSE [ok |-> TRUE, data |-> data]

-----------------------------------------------------------------------------
(* base64.b64encode / base64.b64decode (binascii.a2b_base64, not strict).  *)
(* ok = FALSE stands for binascii.Error.                                   *)

B64Char(v) ==
    IF v < 26 THEN 65 + v
    ELSE IF v < 52 THEN 97 + (v - 26)
    ELSE IF v < 62 THEN 48 + (v - 52)
    ELSE IF v = 62 THEN 43 ELSE 47

\* the 6-bit value of a character of the alphabet, or 64
B64Val(c) ==
    IF c >= 65 /\ c <= 90 THEN c - 65
    ELSE IF c >= 97 /\ c <= 122 THEN c - 97 + 26
    ELSE IF c >= 48 /\ c <= 57 THEN c - 48 + 52
    ELSE IF c = 43 THEN 62
    ELSE IF c = 47 THEN 63
    ELSE 64

\* the four characters for the 3-byte group starting at b[i]; a group cut
\* short by the end of the data is padded with '='
B64Group(b, i) ==
    LET n  == Len(b) - i + 1
        b1 == b[i]
        b2 == IF n >= 2 THEN b[i + 1] ELSE 0
        b3 == IF n >= 3 THEN b[i + 2] ELSE 0
    IN  << B64Char(b1 \div 4),
           B64Char((b1 % 4) * 16 + (b2 \div 16)),
           IF n >= 2 THEN B64Char((b2 % 16) * 4 + (b3 \div 64)) ELSE 61,
           IF n >= 3 THEN B64Char(b3 % 64) ELSE 61 >>

b64encode(b) ==
    Concat([g \in 1..((Len(b) + 2) \div 3) |-> B64Group(b, 3 * g - 2)])

\* One character of the decoding loop: quad_pos characters of the current
\* group are in, pads '=' were seen since the last character, leftchar holds
\* the pending bits; stop is set where the loop ends at the padding.
B64Step(st, c) ==
    IF c = 61
    THEN IF st.quad_pos >= 2 /\ st.quad_pos + st.pads + 1 >= 4
         THEN [st EXCEPT !.stop = TRUE]
         ELSE IF st.quad_pos >= 2 THEN [st EXCEPT !.pads = st.pads + 1] ELSE st
    ELSE IF B64Val(c) >= 64 THEN st
    ELSE LET v == B64Val(c)
         IN  IF st.quad_pos = 0
             THEN [st EXCEPT !.quad_pos = 1, !.pads = 0, !.leftchar = v]
             ELSE [stop     |-> FALSE,
                   quad_pos |-> (st.quad_pos + 1) % 4,
                   pads     |-> 0,
                   leftchar |-> IF st.quad_pos = 1 THEN v % 16
                                ELSE IF st.quad_pos = 2 THEN v % 4 ELSE 0,
                   data     |-> Append(st.data,
                                   IF st.quad_pos = 1 THEN st.leftchar * 4 + (v \div 16)
                                   ELSE IF st.quad_pos = 2
                                       THEN st.leftchar * 16 + (v \div 4)
                                   ELSE st.leftchar * 64 + v)]

RECURSIVE B64Scan(_, _, _, _)
\* the loop over s[lo..hi] from state st
B64Scan(s, lo, hi, st) ==
    IF st.stop \/ lo > hi THEN st
    ELSE IF lo = hi THEN B64Step(st, s[lo])
    ELSE B64Scan(s, ((lo + hi) \div 2) + 1, hi, B64Scan(s, lo, (lo + hi) \div 2, st))

b64decode(s) ==
    LET st == B64Scan(s, 1, Len(s), [stop |-> FALSE, quad_pos |-> 0, pads |-> 0,
                                     leftchar |-> 0, data |-> <<>>])
    IN  IF st.stop \/ st.quad_pos = 0 THEN [ok |-> TRUE, data |-> st.data]
        ELSE [ok |-> FALSE, data |-> <<>>]

-----------------------------------------------------------------------------
(* CompressionUtils.compress_json / decompress_json *)

compress_json(data, lv) ==
    LET json_str == json_dumps(data)
        json_bytes == Utf8Encode(json_str)
        compressed == zlib_compress(json_bytes, lv)
    IN  b64encode(compressed)

Raised(exc) == [kind |-> "raise", exc |-> exc]

Returned(val) == [kind |-> "return", val |-> val]

FromJson(parsed) ==
    IF ~parsed.ok THEN Raised("json.JSONDecodeError") ELSE Returned(parsed.val)

FromText(json_str) ==
    IF ~json_str.ok THEN Raised("UnicodeDecodeError")
    ELSE FromJson(json_loads(json_str.text))

FromZlib(json_bytes) ==
    IF ~json_bytes.ok THEN Raised("zlib.error") ELSE FromText(Utf8Decode(json_bytes.data))

FromBase64(compressed) ==
    IF ~compressed.ok THEN Raised("binascii.Error")
    ELSE FromZlib(zlib_decompress(compressed.data))

\* each step runs on the result of the one before; the first that raises ends
\* the call with its exception
decompress_json(data) == FromBase64(b64decode(data))

-----------------------------------------------------------------------------
(* The documents the codec is run on: mappings with string keys, in either *)
(* insertion order, over numbers, strings, lists and inner mappings.       *)

MaxListLen == 2

\* "b" and "a\u00e9": insertion order b, a\u00e9 is not key order
Keys == {<<98>>, <<97, 233>>}

\* null, true, ints, floats (2.5, -3.0, -0.25), and strings with a quote, a
\* backslash, control characters, Latin-1 and a character outside the BMP
Leafs ==
    { JNull, JBool(TRUE), JNum(0), JNum(-12), JFloat(25, 1), JFloat(-3, 0),
      JFloat(-25, 2), JStr(<<>>), JStr(<<233, 34>>), JStr(<<128512, 92, 10>>),
      JStr(<<31, 127, 47>>) }

SmallLeafs == { JNum(7), JStr(<<97, 233>>) }

Lists == { JList(items) : items \in SeqsUpTo(SmallLeafs, MaxListLen) }

MapsOver(V, W) ==
    {JMap(<<>>)}
        \cup { JMap(<< <<k, v>> >>) : k \in Keys, v \in V }
        \cup { JMap(<< <<k[1], v>>, <<k[2], w>> >>) :
                   k \in {kk \in Keys \X Keys : kk[1] # kk[2]}, v \in V, w \in W }

Inner == Lists \cup MapsOver(SmallLeafs, SmallLeafs)

Docs == MapsOver(Leafs \cup Inner, SmallLeafs \cup Inner)

\* the levels zlib.compress takes besides the default
Levels == 1..9

-----------------------------------------------------------------------------
(* CompressionUtils used as the layers use it: compress, then decompress *)

Compress ==
    /\ cpc = "start"
    /\ blob' = compress_json(doc, level)
    /\ cpc' = "compressed"
    /\ UNCHANGED <<doc, level, d_ret>>
    /\ UNCHANGED <<covertVars, pipeVars>>

\* what a blob can come back as from storage: its last character lost, one
\* character of the compressed stream changed, or a blob that somebody else
\* made of bytes that are not UTF-8 or of text that is not JSON
DamageKinds == {"base64", "deflate", "utf8", "json"}

Damaged(b, kind, data, lv) ==
    IF kind = "base64" THEN SubSeq(b, 1, Len(b) - 1)
    ELSE IF kind = "deflate" THEN [b EXCEPT ![Len(b) - 5] = IF @ = 65 THEN 66 ELSE 65]
    ELSE IF kind = "utf8" THEN b64encode(zlib_compress(<<255>>, lv))
    ELSE b64encode(zlib_compress(
             SubSeq(Utf8Encode(json_dumps(data)), 1, Len(Utf8Encode(json_dumps(data))) - 1),
             lv))

Damage ==
    /\ cpc = "compressed"
    /\ \E kind \in DamageKinds : blob' = Damaged(blob, kind, doc, level)
    /\ cpc' = "damaged"
    /\ UNCHANGED <<doc, level, d_ret>>
    /\ UNCHANGED <<covertVars, pipeVars>>

Decompress ==
    /\ cpc \in {"compressed", "damaged"}
    /\ d_ret' = decompress_json(blob)
    /\ cpc' = IF cpc = "compressed" THEN "decompressed" ELSE "decompressed_damaged"
    /\ UNCHANGED <<doc, level, blob>>
    /\ UNCHANGED <<covertVars, pipeVars>>

InitCodec ==
    /\ doc \in Docs
    /\ level \in Levels
    /\ blob = "unset"
    /\ d_ret = [kind |-> "unset"]
    /\ cpc = "start"
    /\ IdleCovert
    /\ IdlePipe

NextCodec ==
    \/ Compress
    \/ Decompress
    \/ Damage

SpecCodec == InitCodec /\ [][NextCodec]_vars

-----------------------------------------------------------------------------
(* Claims about the codec *)

\* C10: for every document and every level 1..9, decompress_json of
\* compress_json(doc, level) returns the canonical (key-ordered) form of doc.
C10_CodecRoundTrip ==
    cpc = "decompressed" => d_ret = Returned(Canon(doc))

\* a round trip at level 9 of a document whose keys were inserted out of key
\* order, with a non-ASCII key and a nested mapping
C10_Witness ==
    /\ cpc = "decompressed"
    /\ level = 9
    /\ Len(doc.v) = 2
    /\ doc.v[1][1] = <<98>>
    /\ doc.v[2][2].t = "map"
    /\ Canon(doc) # doc
    /\ d_ret = Returned(Canon(doc))

\* C11: decompress_json reports every failure (malformed base64, corrupt
\* deflate data, invalid JSON) as a DecodingError and as no other exception.
C11_OnlyDecodingError ==
    (cpc = "decompressed_damaged" /\ d_ret.kind = "raise") => d_ret.exc = "DecodingError"

-----------------------------------------------------------------------------
(* String literals of the encoders, as code points *)

K_mpx_version == <<109, 112, 120, 95, 118, 101, 114, 115, 105, 111, 110>>

K_mp5_version == <<109, 112, 53, 95, 118, 101, 114, 115, 105, 111, 110>>

K_created == <<99, 114, 101, 97, 116, 101, 100>>

K_original_hash == <<111, 114, 105, 103, 105, 110, 97, 108, 95, 104, 97, 115, 104>>

K_video_info == <<118, 105, 100, 101, 111, 95, 105, 110, 102, 111>>

K_notes == <<110, 111, 116, 101, 115>>

K_layers == <<108, 97, 121, 101, 114, 115>>

K_atom == <<97, 116, 111, 109>>

K_location == <<108, 111, 99, 97, 116, 105, 111, 110>>

K_timestamp == <<116, 105, 109, 101, 115, 116, 97, 109, 112>>

K_payload_type == <<112, 97, 121, 108, 111, 97, 100, 95, 116, 121, 112, 101>>

K_auto_features == <<97, 117, 116, 111, 95, 102, 101, 97, 116, 117, 114, 101, 115>>

K_user_metadata == <<117, 115, 101, 114, 95, 109, 101, 116, 97, 100, 97, 116, 97>>

K_ai_metadata == <<97, 105, 95, 109, 101, 116, 97, 100, 97, 116, 97>>

K_metadata == <<109, 101, 116, 97, 100, 97, 116, 97>>

K_compression == <<99, 111, 109, 112, 114, 101, 115, 115, 105, 111, 110>>

K_lsb == <<108, 115, 98>>

K_frames == <<102, 114, 97, 109, 101, 115>>

K_redundancy == <<114, 101, 100, 117, 110, 100, 97, 110, 99, 121>>

K_checksum == <<99, 104, 101, 99, 107, 115, 117, 109>>

K_atom_checksum == <<97, 116, 111, 109, 95, 99, 104, 101, 99, 107, 115, 117, 109>>

K_fps == <<102, 112, 115>>

K_frame_count == <<102, 114, 97, 109, 101, 95, 99, 111, 117, 110, 116>>

K_width == <<119, 105, 100, 116, 104>>

K_height == <<104, 101, 105, 103, 104, 116>>

K_codec == <<99, 111, 100, 101, 99>>

K_duration == <<100, 117, 114, 97, 116, 105, 111, 110>>

K_scene_cut_count == <<115, 99, 101, 110, 101, 95, 99, 117, 116, 95, 99, 111, 117, 110, 116>>

K_title == <<116, 105, 116, 108, 101>>

\* "AI Metadata stored in lsb layer"
V_notes == <<65, 73, 32, 77, 101, 116, 97, 100, 97, 116, 97, 32, 115, 116, 111, 114, 101, 100, 32, 105, 110, 32, 108, 115, 98, 32, 108, 97, 121, 101, 114>>

\* "ai_training_data"
V_payload_type == <<97, 105, 95, 116, 114, 97, 105, 110, 105, 110, 103, 95, 100, 97, 116, 97>>

\* "moov.udta."
V_location == <<109, 111, 111, 118, 46, 117, 100, 116, 97, 46>>

\* "zlib+base64"
V_compression == <<122, 108, 105, 98, 43, 98, 97, 115, 101, 54, 52>>

\* "1.0.0"
version == <<49, 46, 48, 46, 48>>

\* the tag name of MP5Config: "\u00c2\u00a9mp5" in src/src, "\u00a9mp5" in temps/temp.py
atom_tag(vr) == IF vr = "mpx" THEN <<194, 169, 109, 112, 53>> ELSE <<169, 109, 112, 53>>

-----------------------------------------------------------------------------
(* Python values and dicts, on the JSON values above *)

\* what dict.get(key) gives for a key that is not there, and None
Missing == [t |-> "missing", v |-> 0]

\* bool(x)
Truthy(x) ==
    IF x.t = "missing" \/ x.t = "null" THEN FALSE
    ELSE IF x.t = "bool" THEN x.v
    ELSE IF x.t = "num" THEN x.v # 0
    ELSE IF x.t = "float" THEN x.v[1] # 0
    ELSE Len(x.v) > 0

\* key in d, for a dict d
HasKey(d, key) == \E i \in 1..Len(d.v) : d.v[i][1] = key

\* d.get(key, default), for a dict d
Get(d, key, default) ==
    IF HasKey(d, key) THEN d.v[CHOOSE i \in 1..Len(d.v) : d.v[i][1] = key][2]
    ELSE default

\* d[key] = value on a dict d: a new key goes last
SetItem(d, key, value) == JMap(DictPut(d.v, <<key, value>>))

\* key in x for any value x: "yes", "no", or "TypeError" where x is not a
\* container (a dict looks at its keys, a list at its items, a str at its
\* substrings)
Contains(x, key) ==
    IF x.t = "map" THEN (IF HasKey(x, key) THEN "yes" ELSE "no")
    ELSE IF x.t = "list"
        THEN (IF \E i \in 1..Len(x.v) : x.v[i] = JStr(key) THEN "yes" ELSE "no")
    ELSE IF x.t = "str"
        THEN (IF \E i \in 1..(Len(x.v) - Len(key) + 1) :
                     SubSeq(x.v, i, i + Len(key) - 1) = key
              THEN "yes" ELSE "no")
    ELSE "TypeError"

-----------------------------------------------------------------------------
(* HashUtils.  hexdigest() of the hashlib digest; the 256-bit digest is    *)
(* stood for by the 32-bit Adler checksum of the data, as 8 hex digits: a  *)
(* function of the data alone.                                             *)

HexOf(ab) ==
    << HexDigit(ab[2] \div 4096), HexDigit((ab[2] \div 256) % 16),
       HexDigit((ab[2] \div 16) % 16), HexDigit(ab[2] % 16),
       HexDigit(ab[1] \div 4096), HexDigit((ab[1] \div 256) % 16),
       HexDigit((ab[1] \div 16) % 16), HexDigit(ab[1] % 16) >>

hash_data(data) == HexOf(AdlerAB(data))

\* the digest of the bytes of a file: its samples and its tag
hash_file(f) ==
    HexOf(AdlerAB(Concat(f.frames) \o (IF f.tag = "absent" THEN <<>> ELSE Utf8Encode(f.tag))))

-----------------------------------------------------------------------------
(* Files.  A video file is its frames, what cv2 reports about it, and the  *)
(* text under the metadata tag of its moov.udta box ("absent": no tag).    *)

NoFile ==
    [exists |-> FALSE, frames |-> <<>>, width |-> 0, height |-> 0,
     total_frames |-> 0, tag |-> "absent"]

VideoFile(frames, w, h, tag) ==
    [exists |-> TRUE, frames |-> frames, width |-> w, height |-> h,
     total_frames |-> Len(frames), tag |-> tag]

\* CAP_PROP_FPS and CAP_PROP_FOURCC of the videos of the model ('FFV1')
Fps == 25
Fourcc == 827737670

\* VideoUtils.get_video_info: duration is frame_count / fps
get_video_info(f) ==
    JMap(<< <<K_fps, JFloat(Fps, 0)>>,
            <<K_frame_count, JNum(f.total_frames)>>,
            <<K_width, JNum(f.width)>>,
            <<K_height, JNum(f.height)>>,
            <<K_codec, JNum(Fourcc)>>,
            <<K_duration, NormFloat((100 \div Fps) * f.total_frames, 2)>> >>)

\* AtomLayer.has_metadata: False too when the file cannot be opened
AtomLayer_has_metadata(f) == f.exists /\ f.tag # "absent"

\* AtomLayer.read on a file that has the tag: the tag text as bytes
AtomLayer_read(f) == Utf8Encode(f.tag)

\* AtomLayer.write: the copy of the file at video_path with the tag set;
\* a missing video_path makes copyfile raise, which write turns into
\* EncodingError; where MP4(output_path) or video.save raises (mp4 is FALSE:
\* not a file mutagen can open or save) the copy is already at output_path
AtomLayer_write(f, metadata, mp4) ==
    IF ~f.exists THEN [kind |-> "EncodingError", file |-> NoFile]
    ELSE IF ~mp4 THEN [kind |-> "EncodingError", file |-> f]
    ELSE [kind |-> "True", file |-> [f EXCEPT !.tag = Utf8Decode(metadata).text]]

RECURSIVE write_frames(_, _, _, _)
\* the frame loop of LSBLayer.write over frames[k..]
write_frames(frames, k, written, binary) ==
    IF k > Len(frames) THEN <<>>
    ELSE <<write_frame(frames[k], written, k - 1, binary).frame>>
             \o write_frames(frames, k + 1,
                             write_frame(frames[k], written, k - 1, binary).bits_written,
                             binary)

\* LSBLayer.write(video_path, ai_metadata, output_path) as one call: rc is the
\* exit status of ffmpeg, which writes the output (video from the frames,
\* no tag) when it succeeds and nothing when it fails
LSBLayer_write(f, payload, rc) ==
    IF ~Utf8Decode(payload).ok
       \/ CapacityExceeded(Len(text_to_binary(Utf8Decode(payload).text)),
                           f.width * f.height * Channels, f.total_frames)
    THEN [kind |-> "EncodingError", file |-> NoFile]
    ELSE [kind |-> "True",
          file |-> IF rc = 0
                   THEN VideoFile(write_frames(f.frames, 1, 0,
                                      text_to_binary(Utf8Decode(payload).text)),
                                  f.width, f.height, "absent")
                   ELSE NoFile]

\* LSBLayer.read(video_path)
LSBLayer_read_file(f) == LSBLayer_read(f.frames, DefaultMaxFrames)

-----------------------------------------------------------------------------
(* The LSBLayer of src/temps/temp.py: the whole payload goes into each of   *)
(* the first lsb_redundancy frames, and read looks at one frame.  The       *)
(* frames are taken to come through the video writer unchanged.             *)

\* MP5Config.lsb_redundancy
lsb_redundancy == 5

\* temp.py lines 394-408: the length in samples 0-31, then as much of the
\* payload as the frame holds
MP5_embed_in_frame(flat, data_bin) ==
    [p \in 1..Len(flat) |->
        IF p <= HeaderBits
        THEN (flat[p] \div 2) * 2 + FormatBin(Len(data_bin), HeaderBits)[p]
        ELSE IF p - HeaderBits <= Min(Len(data_bin), Len(flat) - HeaderBits)
            THEN (flat[p] \div 2) * 2 + data_bin[p - HeaderBits]
        ELSE flat[p]]

\* temp.py lines 424-491: rc is the exit status of ffmpeg
MP5_LSBLayer_write(f, payload, rc) ==
    IF ~Utf8Decode(payload).ok \/ rc # 0
    THEN [kind |-> "EncodingError", file |-> NoFile]
    ELSE [kind |-> "True",
          file |-> VideoFile(
              [k \in 1..Len(f.frames) |->
                  IF k - 1 < lsb_redundancy
                  THEN MP5_embed_in_frame(f.frames[k],
                                          text_to_binary(Utf8Decode(payload).text))
                  ELSE f.frames[k]],
              f.width, f.height, "absent")]

\* temp.py lines 410-422 on the length data_len read from the header
MP5_extract(flat, data_len) ==
    IF data_len <= 0 \/ data_len > Len(flat) - HeaderBits THEN ReadNone
    ELSE ReadBytes(Utf8Encode(binary_to_text(
                       LowBits(flat, HeaderBits, HeaderBits + data_len))))

\* temp.py lines 493-515, frame_index 0
MP5_LSBLayer_read(f) ==
    IF ~f.exists \/ f.frames = <<>> THEN ReadNone
    ELSE IF Len(f.frames[1]) < HeaderBits THEN ReadRaise
    ELSE MP5_extract(f.frames[1], IntOfBits(LowBits(f.frames[1], 0, HeaderBits)))

\* lsb_layer.write of the code that runs
Layer_write(vr, f, payload, rc) ==
    IF vr = "mpx" THEN LSBLayer_write(f, payload, rc)
    ELSE MP5_LSBLayer_write(f, payload, rc)

-----------------------------------------------------------------------------
(* MPXDecoder.decode and MPXVerifier.verify (src/src) *)

\* a handler that puts an empty document where decompress_json raised
Loaded_Empty(d) == IF d.kind = "return" THEN d.val ELSE JMap(<<>>)

\* the document a blob decompresses to, or Missing where decompress_json raises
\* (both uses sit in a try whose handler only logs)
Loaded(d) == IF d.kind = "return" THEN d.val ELSE Missing

\* lines 27-38: the "ai_metadata" entry of the result, Missing if it is not set
MPX_ai_metadata(r) ==
    IF r.kind = "bytes" /\ r.data # <<>> THEN Loaded(decompress_json(r.data))
    ELSE Missing

\* lines 41-48: the "file_info" entry of the result, Missing if it is not set
MPX_file_info(f) ==
    IF AtomLayer_has_metadata(f) THEN Loaded(decompress_json(AtomLayer_read(f)))
    ELSE Missing

\* a decode with no try around the two extractions
MPXDecoder_decode_NoTry(f) ==
    IF LSBLayer_read_file(f).kind = "DecodingError" THEN Raised("DecodingError")
    ELSE IF /\ LSBLayer_read_file(f).kind = "bytes"
            /\ LSBLayer_read_file(f).data # <<>>
            /\ decompress_json(LSBLayer_read_file(f).data).kind = "raise"
        THEN decompress_json(LSBLayer_read_file(f).data)
    ELSE IF /\ AtomLayer_has_metadata(f)
            /\ decompress_json(AtomLayer_read(f)).kind = "raise"
        THEN decompress_json(AtomLayer_read(f))
    ELSE Returned([ai_metadata |-> MPX_ai_metadata(LSBLayer_read_file(f)),
                   file_info   |-> MPX_file_info(f)])

\* decode never raises: every layer call is in a try or catches by itself
MPXDecoder_decode(f) ==
    Returned([ai_metadata |-> MPX_ai_metadata(LSBLayer_read_file(f)),
              file_info   |-> MPX_file_info(f)])

\* lines 29-42, on the dict decode returned
MPXVerifier_classify(data) ==
    [lsb_layer  |-> IF Truthy(data.ai_metadata) THEN "present" ELSE "absent",
     atom_layer |-> IF Truthy(data.file_info) THEN "present" ELSE "absent",
     cross      |-> "none",
     overall    |-> IF Truthy(data.ai_metadata) THEN "verified" ELSE "partial",
     error      |-> "none"]

\* the handler that lets an exception out of verify instead of catching it
VerifyReraise(exc) ==
    [lsb_layer |-> "unknown", atom_layer |-> "unknown", cross |-> "unknown",
     overall |-> "raised", error |-> exc]

\* lines 44-46 (temp.py 794-796): except Exception as e
VerifyCatch(exc) ==
    [lsb_layer |-> "unknown", atom_layer |-> "unknown", cross |-> "unknown",
     overall |-> "error", error |-> exc]

\* lines 26-46 on what decode returned or raised
MPXVerifier_result(d) ==
    IF d.kind = "raise" THEN VerifyCatch(d.exc) ELSE MPXVerifier_classify(d.val)

MPXVerifier_verify(f) == MPXVerifier_result(MPXDecoder_decode(f))

-----------------------------------------------------------------------------
(* MP5Decoder.decode and MP5Verifier.verify (src/temps/temp.py) *)

\* the six entries decode copies from the container document
MP5_result(atom_metadata) ==
    JMap(<< <<K_mp5_version, Get(atom_metadata, K_mp5_version, JNull)>>,
            <<K_created, Get(atom_metadata, K_created, JNull)>>,
            <<K_original_hash, Get(atom_metadata, K_original_hash, JNull)>>,
            <<K_video_info, Get(atom_metadata, K_video_info, JNull)>>,
            <<K_metadata, Get(atom_metadata, K_metadata, JNull)>>,
            <<K_layers, Get(atom_metadata, K_layers, JNull)>> >>)

\* lines 710-717: the "lsb_verification" entry: the covert document, None
\* (JNull) where the read or the decompression raised, Missing if not set
MP5_lsb_verification(r) ==
    IF r.kind = "DecodingError" THEN JNull
    ELSE IF r.kind = "bytes" /\ r.data # <<>>
        THEN (IF decompress_json(r.data).kind = "return"
              THEN decompress_json(r.data).val ELSE JNull)
    ELSE Missing

\* lines 698-727, with the container document loaded
MP5_decoded(f, atom_metadata) ==
    IF atom_metadata.t # "map" THEN Raised("AttributeError")
    ELSE IF Contains(Get(atom_metadata, K_layers, JMap(<<>>)), K_lsb) = "TypeError"
        THEN Raised("TypeError")
    ELSE Returned([data |-> MP5_result(atom_metadata),
                   lsb_verification |->
                       IF Contains(Get(atom_metadata, K_layers, JMap(<<>>)), K_lsb) = "yes"
                       THEN MP5_lsb_verification(MP5_LSBLayer_read(f))
                       ELSE Missing])

\* lines 695-696: an exception of decompress_json leaves decode as it is
MP5_loaded(f, d) == IF d.kind = "raise" THEN d ELSE MP5_decoded(f, d.val)

MP5Decoder_decode(f) ==
    IF ~AtomLayer_has_metadata(f) THEN Raised("DecodingError")
    ELSE MP5_loaded(f, decompress_json(AtomLayer_read(f)))

\* lines 769-782: the checksum comparison
MP5_cross(data, lsb_data) ==
    IF JStr(hash_data(Utf8Encode(json_dumps_default(data))))
           = Get(lsb_data, K_atom_checksum, JNull)
    THEN "passed" ELSE "failed"

\* lines 761-792 on the dict decode returned
MP5Verifier_classify(r) ==
    IF ~Truthy(r.lsb_verification)
    THEN [lsb_layer |-> "absent", atom_layer |-> "present", cross |-> "unknown",
          overall |-> "partial", error |-> "none"]
    ELSE IF r.lsb_verification.t # "map"
        THEN [VerifyCatch("AttributeError") EXCEPT !.atom_layer = "present"]
    ELSE IF MP5_cross(r.data, r.lsb_verification) = "passed"
        THEN [lsb_layer |-> "verified", atom_layer |-> "present", cross |-> "passed",
              overall |-> "verified", error |-> "none"]
    ELSE [lsb_layer |-> "tampered", atom_layer |-> "present", cross |-> "failed",
          overall |-> "partial", error |-> "none"]

MP5Verifier_result(d) ==
    IF d.kind = "raise" THEN VerifyCatch(d.exc) ELSE MP5Verifier_classify(d.val)

MP5Verifier_verify(f) == MP5Verifier_result(MP5Decoder_decode(f))

\* Verifier.verify of the code that runs
Verifier_verify(vr, f) ==
    IF vr = "mpx" THEN MPXVerifier_verify(f) ELSE MP5Verifier_verify(f)

-----------------------------------------------------------------------------
(* MPXEncoder.encode (src/src) and MP5Encoder.encode (src/temps/temp.py) *)

\* compress_json(data) without a level, and config.compression_level
CompressionLevel == 6

\* FeatureExtractor.extract_all_features, cut down to one of its entries
extract_all_features(f) == JMap(<< <<K_scene_cut_count, JNum(0)>> >>)

\* MPXEncoder lines 64-75
MPX_atom_metadata(f, now) ==
    JMap(<< <<K_mpx_version, JStr(version)>>,
            <<K_created, JStr(now)>>,
            <<K_original_hash, JStr(hash_file(f))>>,
            <<K_video_info, get_video_info(f)>>,
            <<K_notes, JStr(V_notes)>>,
            <<K_layers, JMap(<< <<K_atom,
                 JMap(<< <<K_location, JStr(V_location \o atom_tag("mpx"))>> >>)>> >>)>> >>)

\* MPXEncoder lines 80-86
MPX_lsb_metadata(f, um, now) ==
    JMap(<< <<K_mpx_version, JStr(version)>>,
            <<K_timestamp, JStr(now)>>,
            <<K_payload_type, JStr(V_payload_type)>>,
            <<K_auto_features, extract_all_features(f)>>,
            <<K_user_metadata, um>> >>)

\* temp.py lines 563-575
MP5_atom_metadata(f, um, now) ==
    JMap(<< <<K_mp5_version, JStr(version)>>,
            <<K_created, JStr(now)>>,
            <<K_original_hash, JStr(hash_file(f))>>,
            <<K_video_info, get_video_info(f)>>,
            <<K_metadata, um>>,
            <<K_layers, JMap(<< <<K_atom,
                 JMap(<< <<K_location, JStr(V_location \o atom_tag("mp5"))>>,
                         <<K_compression, JStr(V_compression)>> >>)>> >>)>> >>)

\* temp.py lines 579-586: the checksum is taken of atom_metadata as it is here
MP5_lsb_metadata(atom_metadata, now) ==
    JMap(<< <<K_mp5_version, JStr(version)>>,
            <<K_atom_checksum,
              JStr(hash_data(Utf8Encode(json_dumps_default(atom_metadata))))>>,
            <<K_timestamp, JStr(now)>> >>)

\* temp.py lines 588-595: atom_metadata["layers"]["lsb"] = {...}
MP5_atom_with_lsb(atom_metadata, lsb_metadata) ==
    SetItem(atom_metadata, K_layers,
        SetItem(Get(atom_metadata, K_layers, JMap(<<>>)), K_lsb,
            JMap(<< <<K_frames, JList([i \in 1..lsb_redundancy |-> JNum(i - 1)])>>,
                    <<K_redundancy, JNum(lsb_redundancy)>>,
                    <<K_checksum,
                      JStr(hash_data(Utf8Encode(json_dumps_default(lsb_metadata))))>> >>)))

\* the atom write and the removal of the temp file (MPXEncoder 113-114, 123)
AfterAtom(a, tmp) ==
    IF a.kind # "True" THEN [kind |-> "EncodingError", output |-> a.file, temp |-> tmp]
    ELSE [kind |-> "True", output |-> a.file, temp |-> NoFile]

\* what follows the LSB write w (MPXEncoder 109-114)
AfterLsb(w, atom_compressed, mp4) ==
    IF w.kind # "True" THEN [kind |-> "EncodingError", output |-> NoFile, temp |-> NoFile]
    ELSE AfterAtom(AtomLayer_write(w.file, atom_compressed, mp4), w.file)

\* the two writes the other way round: the tag first, the pixels after
WriteLayers_AtomFirst(vr, f, lsb, atom_compressed, lsb_compressed, rc, mp4) ==
    IF ~lsb THEN AfterAtom(AtomLayer_write(f, atom_compressed, mp4), NoFile)
    ELSE IF AtomLayer_write(f, atom_compressed, mp4).kind # "True"
        THEN [kind |-> "EncodingError",
              output |-> NoFile, temp |-> AtomLayer_write(f, atom_compressed, mp4).file]
    ELSE IF Layer_write(vr, AtomLayer_write(f, atom_compressed, mp4).file,
                        lsb_compressed, rc).kind # "True"
        THEN [kind |-> "EncodingError", output |-> NoFile,
              temp |-> AtomLayer_write(f, atom_compressed, mp4).file]
    ELSE [kind |-> "True",
          output |-> Layer_write(vr, AtomLayer_write(f, atom_compressed, mp4).file,
                                 lsb_compressed, rc).file,
          temp |-> NoFile]

\* MPXEncoder lines 103-123, temp.py lines 609-629
WriteLayers(vr, f, lsb, atom_compressed, lsb_compressed, rc, mp4) ==
    IF lsb THEN AfterLsb(Layer_write(vr, f, lsb_compressed, rc), atom_compressed, mp4)
    ELSE AfterAtom(AtomLayer_write(f, atom_compressed, mp4), NoFile)

\* the self-check that lets any verdict but "verified" raise
Checked_VerifiedOnly(wr, overall, atom_metadata, lsb_metadata) ==
    [kind |-> IF overall = "verified" THEN "return" ELSE "raise",
     exc |-> IF overall = "verified" THEN "none" ELSE "IntegrityError",
     overall |-> overall, verify |-> TRUE,
     output |-> wr.output, temp |-> wr.temp,
     atom_metadata |-> atom_metadata, lsb_metadata |-> lsb_metadata]

\* MPXEncoder lines 125-161, temp.py lines 632-663, with the verdict of verify
Checked(wr, overall, atom_metadata, lsb_metadata) ==
    [kind |-> IF overall \in {"verified", "partial"} THEN "return" ELSE "raise",
     exc |-> IF overall \in {"verified", "partial"} THEN "none" ELSE "IntegrityError",
     overall |-> overall, verify |-> TRUE,
     output |-> wr.output, temp |-> wr.temp,
     atom_metadata |-> atom_metadata, lsb_metadata |-> lsb_metadata]

\* what follows the layer writes: their exception, or the check if verify is
\* set, or the statistics right away
Finish(vr, wr, atom_metadata, lsb_metadata, verify) ==
    IF wr.kind # "True"
    THEN [kind |-> "raise", exc |-> wr.kind, overall |-> "none", verify |-> verify,
          output |-> wr.output, temp |-> wr.temp,
          atom_metadata |-> atom_metadata, lsb_metadata |-> lsb_metadata]
    ELSE IF ~verify
    THEN [kind |-> "return", exc |-> "none", overall |-> "none", verify |-> FALSE,
          output |-> wr.output, temp |-> wr.temp,
          atom_metadata |-> atom_metadata, lsb_metadata |-> lsb_metadata]
    ELSE Checked(wr, Verifier_verify(vr, wr.output).overall, atom_metadata, lsb_metadata)

\* the documents with lsb_metadata left out of atom_metadata in either case
MPX_documents_NoFold(f, um, lsb, now) ==
    <<MPX_atom_metadata(f, now), MPX_lsb_metadata(f, um, now)>>

\* the documents the encoder compresses: <<atom_metadata, lsb_metadata>>
MPX_documents(f, um, lsb, now) ==
    IF lsb THEN <<MPX_atom_metadata(f, now), MPX_lsb_metadata(f, um, now)>>
    ELSE <<SetItem(MPX_atom_metadata(f, now), K_ai_metadata, MPX_lsb_metadata(f, um, now)),
           MPX_lsb_metadata(f, um, now)>>

MP5_documents(f, um, lsb, now) ==
    IF lsb
    THEN <<MP5_atom_with_lsb(MP5_atom_metadata(f, um, now),
                             MP5_lsb_metadata(MP5_atom_metadata(f, um, now), now)),
           MP5_lsb_metadata(MP5_atom_metadata(f, um, now), now)>>
    ELSE <<MP5_atom_metadata(f, um, now), Missing>>

\* encode from the documents on
Encoded(vr, f, lsb, docs, rc, mp4, verify) ==
    Finish(vr,
           WriteLayers(vr, f, lsb, compress_json(docs[1], CompressionLevel),
                       IF lsb THEN compress_json(docs[2], CompressionLevel) ELSE <<>>,
                       rc, mp4),
           docs[1], docs[2], verify)

\* encode(video_path, user_metadata, output_path, use_lsb, verify); now is the
\* clock, rc the exit status of ffmpeg, mp4 whether mutagen can open and save
\* the file it is given
Encoder_encode(vr, f, um, lsb, verify, now, rc, mp4) ==
    IF ~f.exists
    THEN [kind |-> "raise", exc |-> "ValidationError", overall |-> "none",
          verify |-> verify, output |-> NoFile, temp |-> NoFile,
          atom_metadata |-> Missing, lsb_metadata |-> Missing]
    ELSE Encoded(vr, f, lsb,
                 IF vr = "mpx" THEN MPX_documents(f, um, lsb, now)
                 ELSE MP5_documents(f, um, lsb, now),
                 rc, mp4, verify)

-----------------------------------------------------------------------------
(* The pipeline: encode a video, or take a file from elsewhere; alter the  *)
(* file; verify it.                                                        *)

\* the videos handed to encode: one frame that holds every covert payload of
\* the model (24x24x3 = 1728 samples), two frames that hold it together
\* (2 x 18x18x3), and one frame that is too small (8x8x3)
PipeVideos ==
    { VideoFile(<<MkFrame(24 * 24 * Channels, 0, 1)>>, 24, 24, "absent"),
      VideoFile(<<MkFrame(18 * 18 * Channels, 0, 1), MkFrame(18 * 18 * Channels, 0, 2)>>,
                18, 18, "absent"),
      VideoFile(<<MkFrame(8 * 8 * Channels, 1, 1)>>, 8, 8, "absent") }

\* {} and {"title": "a"}
UserDocs == { JMap(<<>>), JMap(<< <<K_title, JStr(<<97>>)>> >>) }

\* "T1Z": what datetime.now().isoformat() + "Z" stands for
Times == { <<84, 49, 90>> }

\* a video nobody wrote to: no tag, low bits all zero
PlainVideo == VideoFile(<<MkFrame(24 * 24 * Channels, 1, 1)>>, 24, 24, "absent")

\* a video whose tag holds the compressed empty document
EmptyDocVideo ==
    [PlainVideo EXCEPT !.tag = Utf8Decode(compress_json(JMap(<<>>), CompressionLevel)).text]

\* a file in the layout of temp.py whose covert checksum is the digest the
\* verifier recomputes from the container document of the same file
LinkedVideo ==
    LET atom == MP5_documents(PlainVideo, JMap(<<>>), TRUE, <<84, 49, 90>>)[1]
        cov  == JMap(<< <<K_mp5_version, JStr(version)>>,
                        <<K_atom_checksum,
                          JStr(hash_data(Utf8Encode(json_dumps_default(MP5_result(atom)))))>>,
                        <<K_timestamp, JStr(<<84, 49, 90>>)>> >>)
    IN  [MP5_LSBLayer_write(PlainVideo, compress_json(cov, CompressionLevel), 0).file
            EXCEPT !.tag = Utf8Decode(compress_json(atom, CompressionLevel)).text]

ForeignFiles == { PlainVideo, EmptyDocVideo, LinkedVideo }

NoVerdict == [overall |-> "unset"]

NoResult == [kind |-> "unset"]

\* Encoder.encode(video_path, user_metadata, output_path, use_lsb), the whole
\* call: documents, compression, both layer writes, cleanup, self-check
Encode ==
    /\ ppc = "start"
    /\ \E rc \in {0, 1}, mp4 \in BOOLEAN, verify \in BOOLEAN :
          /\ e_ret' = Encoder_encode(variant, video_path, user_metadata, use_lsb,
                                     verify, created, rc, mp4)
          /\ output_path' = e_ret'.output
          /\ temp_path' = e_ret'.temp
    /\ ppc' = "file"
    /\ UNCHANGED <<variant, video_path, user_metadata, use_lsb, created, v_ret,
                   dec_ret, verified0, altered>>
    /\ UNCHANGED <<covertVars, codecVars>>

\* a file that did not come from this encoder is at output_path
Receive ==
    /\ ppc = "start"
    /\ output_path' \in ForeignFiles
    /\ ppc' = "file"
    /\ UNCHANGED <<variant, video_path, user_metadata, use_lsb, created, temp_path,
                   e_ret, v_ret, dec_ret, verified0, altered>>
    /\ UNCHANGED <<covertVars, codecVars>>

\* Verifier.verify(output_path), once for each content of the file: verify
\* reads nothing but the file, so a second call returns the same
Verify ==
    /\ ppc = "file"
    /\ v_ret = NoVerdict
    /\ v_ret' = Verifier_verify(variant, output_path)
    /\ verified0' = IF altered = "none" THEN v_ret'.overall = "verified" ELSE verified0
    /\ UNCHANGED <<variant, video_path, user_metadata, use_lsb, created, output_path,
                   temp_path, e_ret, dec_ret, ppc, altered>>
    /\ UNCHANGED <<covertVars, codecVars>>

\* Decoder.decode of the code that runs
Decoder_decode(vr, f) ==
    IF vr = "mpx" THEN MPXDecoder_decode(f) ELSE MP5Decoder_decode(f)

\* Decoder.decode(output_path), once for each content of the file
Decode ==
    /\ ppc = "file"
    /\ dec_ret = NoResult
    /\ dec_ret' = Decoder_decode(variant, output_path)
    /\ UNCHANGED <<variant, video_path, user_metadata, use_lsb, created, output_path,
                   temp_path, e_ret, v_ret, ppc, verified0, altered>>
    /\ UNCHANGED <<covertVars, codecVars>>

\* the container document of a file whose tag decompresses, Missing otherwise
ContainerDoc(f) == MPX_file_info(f)

\* the covert document of a file whose low bits hold one, Missing otherwise
CovertDoc(f) == MPX_ai_metadata(LSBLayer_read_file(f))

\* a string with its last but one character changed
OneByteOff(s) == [s EXCEPT ![Len(s) - 1] = IF @ = 49 THEN 50 ELSE 49]

\* the file with one byte of its container document changed (the "created"
\* string) and the document stored again; the frames are left alone
WithContainerByte(f, d) ==
    [f EXCEPT !.tag = Utf8Decode(compress_json(
                          SetItem(d, K_created, JStr(OneByteOff(Get(d, K_created, JNull).v))),
                          CompressionLevel)).text]

\* somebody edits the container document
AlterContainerByte ==
    /\ ppc = "file" /\ altered = "none" /\ output_path.exists
    /\ ContainerDoc(output_path).t = "map"
    /\ Get(ContainerDoc(output_path), K_created, JNull).t = "str"
    /\ Len(Get(ContainerDoc(output_path), K_created, JNull).v) >= 2
    /\ output_path' = WithContainerByte(output_path, ContainerDoc(output_path))
    /\ altered' = "container_byte"
    /\ v_ret' = NoVerdict
    /\ dec_ret' = NoResult
    /\ UNCHANGED <<variant, video_path, user_metadata, use_lsb, created, temp_path,
                   e_ret, ppc, verified0>>
    /\ UNCHANGED <<covertVars, codecVars>>

\* one character of the stored tag text is overwritten
AlterTagByte ==
    /\ ppc = "file" /\ altered = "none" /\ AtomLayer_has_metadata(output_path)
    /\ Len(output_path.tag) >= 12
    /\ output_path' = [output_path EXCEPT !.tag[12] = IF @ = 65 THEN 66 ELSE 65]
    /\ altered' = "tag_byte"
    /\ v_ret' = NoVerdict
    /\ dec_ret' = NoResult
    /\ UNCHANGED <<variant, video_path, user_metadata, use_lsb, created, temp_path,
                   e_ret, ppc, verified0>>
    /\ UNCHANGED <<covertVars, codecVars>>

\* the tag is dropped (a remux that does not carry user data over)
RemoveTag ==
    /\ ppc = "file" /\ altered = "none" /\ AtomLayer_has_metadata(output_path)
    /\ output_path' = [output_path EXCEPT !.tag = "absent"]
    /\ altered' = "tag_removed"
    /\ v_ret' = NoVerdict
    /\ dec_ret' = NoResult
    /\ UNCHANGED <<variant, video_path, user_metadata, use_lsb, created, temp_path,
                   e_ret, ppc, verified0>>
    /\ UNCHANGED <<covertVars, codecVars>>

\* the low bits of the header samples are cleared (a lossy re-encode)
ClearCovert ==
    /\ ppc = "file" /\ altered = "none" /\ output_path.exists
    /\ output_path' = [output_path EXCEPT !.frames[1] =
                          [i \in 1..Len(@) |-> IF i <= HeaderBits THEN @[i] - (@[i] % 2)
                                               ELSE @[i]]]
    /\ altered' = "covert_cleared"
    /\ v_ret' = NoVerdict
    /\ dec_ret' = NoResult
    /\ UNCHANGED <<variant, video_path, user_metadata, use_lsb, created, temp_path,
                   e_ret, ppc, verified0>>
    /\ UNCHANGED <<covertVars, codecVars>>

\* one low bit of the payload is flipped
CorruptCovert ==
    /\ ppc = "file" /\ altered = "none" /\ output_path.exists
    /\ output_path' = [output_path EXCEPT !.frames[1][HeaderBits + 20] =
                          IF @ % 2 = 0 THEN @ + 1 ELSE @ - 1]
    /\ altered' = "covert_corrupt"
    /\ v_ret' = NoVerdict
    /\ dec_ret' = NoResult
    /\ UNCHANGED <<variant, video_path, user_metadata, use_lsb, created, temp_path,
                   e_ret, ppc, verified0>>
    /\ UNCHANGED <<covertVars, codecVars>>

Variants == {"mpx", "mp5"}

InitPipeline ==
    /\ variant \in Variants
    /\ video_path \in PipeVideos
    /\ user_metadata \in UserDocs
    /\ use_lsb \in BOOLEAN
    /\ created \in Times
    /\ output_path = NoFile
    /\ temp_path = NoFile
    /\ e_ret = [kind |-> "unset"]
    /\ v_ret = NoVerdict
    /\ dec_ret = NoResult
    /\ ppc = "start"
    /\ verified0 = FALSE
    /\ altered = "none"
    /\ IdleCovert
    /\ IdleCodec

NextPipeline ==
    \/ Encode
    \/ Receive
    \/ Verify
    \/ Decode
    \/ AlterContainerByte
    \/ AlterTagByte
    \/ RemoveTag
    \/ ClearCovert
    \/ CorruptCovert

SpecPipeline == InitPipeline /\ [][NextPipeline]_vars

-----------------------------------------------------------------------------
(* What is in a file, read off the file itself *)

CovertPresent(f) == f.exists /\ CovertDoc(f) # Missing

ContainerPresent(f) == f.exists /\ ContainerDoc(f) # Missing

\* the digests a verifier can recompute from the container document pub
Recomputed(pub) ==
    { JStr(hash_data(Utf8Encode(s))) :
        s \in { json_dumps(pub), json_dumps_default(pub),
                json_dumps_default(MP5_result(pub)) } }

\* the covert document of f stores a digest of the container document of f
ChecksumMatches(f) ==
    /\ CovertDoc(f).t = "map"
    /\ ContainerDoc(f).t = "map"
    /\ \E k \in {K_checksum, K_atom_checksum} :
          Get(CovertDoc(f), k, Missing) \in Recomputed(ContainerDoc(f))

Verified == v_ret.overall # "unset"

\* C3: verify returns overall "verified" if and only if the covert layer is
\* present, the container layer is present, and the checksum stored in the
\* covert document equals the hash recomputed from the container document.
C3_VerifiedIffAllThree ==
    Verified =>
        ((v_ret.overall = "verified")
            <=> (/\ CovertPresent(output_path)
                 /\ ContainerPresent(output_path)
                 /\ ChecksumMatches(output_path)))

\* C4: after one byte of the container document of a file that verified as
\* "verified" is altered (the document still decodes), verify returns overall
\* "tampered" with both presence flags "present".
C4_ContainerByteIsTamper ==
    (Verified /\ verified0 /\ altered = "container_byte") =>
        /\ v_ret.overall = "tampered"
        /\ v_ret.lsb_layer = "present"
        /\ v_ret.atom_layer = "present"

\* C5: verify returns overall "invalid" for every file that has neither a
\* container tag nor a covert header or payload.
C5_NothingIsInvalid ==
    (/\ Verified
     /\ output_path.exists
     /\ ~AtomLayer_has_metadata(output_path)
     /\ LSBLayer_read_file(output_path) = ReadNone)
        => v_ret.overall = "invalid"

\* C6: verify returns overall "partial", container flag "present" and covert
\* flag "absent" for every file with a readable container tag and no covert
\* payload (absent, unreadable or corrupt).
C6_ContainerOnlyIsPartial ==
    (Verified /\ ContainerPresent(output_path) /\ ~CovertPresent(output_path)) =>
        /\ v_ret.overall = "partial"
        /\ v_ret.atom_layer = "present"
        /\ v_ret.lsb_layer = "absent"

\* the overall status on the paths that do not end in the handler
OverallOf(vr, covert, container, match) ==
    IF vr = "mpx" THEN (IF covert THEN "verified" ELSE "partial")
    ELSE IF covert /\ container /\ match THEN "verified" ELSE "partial"

\* C7: verify never raises; when decode raises it returns overall "error"
\* with the exception attached, "error" comes from nowhere else, and on every
\* other path overall is a function of (covert present, container present,
\* checksum match).
C7_VerifyNeverRaises ==
    Verified =>
        /\ v_ret.overall # "raised"
        /\ (Decoder_decode(variant, output_path).kind = "raise")
              <=> (v_ret.overall = "error")
        /\ v_ret.overall = "error"
              => v_ret.error = Decoder_decode(variant, output_path).exc
        /\ v_ret.overall # "error"
              => v_ret.overall = OverallOf(variant, CovertPresent(output_path),
                                           ContainerPresent(output_path),
                                           ChecksumMatches(output_path))

C7_Witness ==
    /\ Verified
    /\ Decoder_decode(variant, output_path) = Raised("DecodingError")
    /\ v_ret.overall = "error"
    /\ v_ret.error = "DecodingError"

\* C9: after encode with the covert channel enabled, the covert document in
\* the pixels of the output holds a checksum equal to the hash of the
\* canonical serialization of the container document of the same output, and
\* verify of the unaltered output is "verified".
C9_ChecksumLinkedAtWrite ==
    (ppc = "file" /\ e_ret.kind = "return" /\ use_lsb /\ altered = "none") =>
        /\ ChecksumMatches(output_path)
        /\ (e_ret.verify => e_ret.overall = "verified")
        /\ (Verified => v_ret.overall = "verified")

Decoded == dec_ret.kind # "unset"

\* the container part of what decode returned
ContainerPart(vr, val) == IF vr = "mpx" THEN val.file_info ELSE val.data

\* what the container part is for a file whose tag decompresses to pub
ContainerPartOf(vr, pub) == IF vr = "mpx" THEN pub ELSE MP5_result(pub)

\* C12: decode fails with DecodingError whenever the container tag is absent
\* from the file; when the tag is present (and decompresses) the document
\* read from it is in the result.
C12_DecodeNeedsTag ==
    (Decoded /\ output_path.exists) =>
        /\ ~AtomLayer_has_metadata(output_path) => dec_ret = Raised("DecodingError")
        /\ ContainerPresent(output_path) =>
              /\ dec_ret.kind = "return"
              /\ ContainerPart(variant, dec_ret.val)
                     = ContainerPartOf(variant, ContainerDoc(output_path))

\* the read of the covert blob raises, or the blob it returns does not
\* decompress
CovertFails(f) ==
    \/ LSBLayer_read_file(f).kind = "DecodingError"
    \/ /\ LSBLayer_read_file(f).kind = "bytes"
       /\ LSBLayer_read_file(f).data # <<>>
       /\ decompress_json(LSBLayer_read_file(f).data).kind = "raise"

\* C13: in MPXDecoder.decode a failure while reading or decompressing the
\* covert blob leaves the covert part out of the result; decode still returns,
\* and the container part is what the tag holds (for an output of encode whose
\* tag was not touched: the document encode stored).
C13_CovertFailureDowngrades ==
    (variant = "mpx" /\ Decoded /\ CovertFails(output_path)) =>
        /\ dec_ret.kind = "return"
        /\ dec_ret.val.ai_metadata = Missing
        /\ dec_ret.val.file_info = ContainerDoc(output_path)
        /\ (e_ret.kind = "return" /\ altered \in {"none", "covert_corrupt", "covert_cleared"})
              => dec_ret.val.file_info = Canon(e_ret.atom_metadata)

C13_Witness ==
    /\ variant = "mpx" /\ Decoded /\ CovertFails(output_path)
    /\ e_ret.kind = "return" /\ use_lsb /\ altered = "covert_corrupt"
    /\ dec_ret.kind = "return"
    /\ dec_ret.val.ai_metadata = Missing
    /\ dec_ret.val.file_info = Canon(e_ret.atom_metadata)

Encoded_ == e_ret.kind # "unset"

C15_NoHalfWrittenOutput ==
    (Encoded_ /\ e_ret.exc = "EncodingError") =>
        /\ e_ret.kind = "raise"
        /\ ~e_ret.output.exists

\* C16: whenever encode with the covert channel enabled returns or raises, the
\* intermediate temp file no longer exists.
C16_TempRemoved ==
    (Encoded_ /\ use_lsb) => ~e_ret.temp.exists

\* C18: when MPXEncoder.encode runs with use_lsb False, lsb_metadata is in the
\* container document under "ai_metadata", the frames of the output are the
\* frames of the source, and there is no temp file.
C18_CovertDisabled ==
    (Encoded_ /\ ~use_lsb /\ altered = "none") =>
        /\ ~e_ret.temp.exists
        /\ e_ret.output.exists => e_ret.output.frames = video_path.frames
        /\ (variant = "mpx" /\ e_ret.kind = "return") =>
              /\ Get(ContainerDoc(output_path), K_ai_metadata, Missing)
                     = Canon(e_ret.lsb_metadata)
              /\ output_path.frames = video_path.frames

C18_Witness ==
    /\ Encoded_ /\ ~use_lsb /\ altered = "none"
    /\ variant = "mpx" /\ e_ret.kind = "return"
    /\ output_path.exists /\ output_path.frames = video_path.frames
    /\ Get(ContainerDoc(output_path), K_ai_metadata, Missing) = Canon(e_ret.lsb_metadata)
    /\ ~temp_path.exists

-----------------------------------------------------------------------------
(* More claims about the covert layer *)

\* C17: when ffmpeg exits non-zero, LSBLayer.write fails with EncodingError,
\* and no output is produced.
C17_RemuxFailureRaises ==
    (pc = "done" /\ remux_rc = 1) =>
        /\ w_ret = "EncodingError"
        /\ output = "absent"

\* the frames write has saved so far, and the frames they were read from
Saved == IF temp_dir = "absent" THEN <<>> ELSE temp_dir

\* samples of frame j that can take payload bits
PayloadRoom(j) ==
    IF j = 1 THEN Max(0, Len(source0.frames[1]) - HeaderBits) ELSE Len(source0.frames[j])

RECURSIVE RoomBefore(_)
RoomBefore(k) == IF k <= 1 THEN 0 ELSE RoomBefore(k - 1) + PayloadRoom(k - 1)

\* 0-based index into the payload bits of sample p (1-based) of frame k
PayloadIndex(k, p) == RoomBefore(k) + (p - 1) - (IF k = 1 THEN HeaderBits ELSE 0)

IsHeaderSample(k, p) == k = 1 /\ p <= HeaderBits

IsPayloadSample(k, p) ==
    ~IsHeaderSample(k, p) /\ PayloadIndex(k, p) >= 0 /\ PayloadIndex(k, p) < total_bits

\* C19: after a write that embeds a payload, the low bits of samples 0-31 of
\* frame 0 are the 32-bit count of payload bits, and every other sample of
\* every frame either carries its payload bit or is as it was in the source.
C19_HeaderPlacement ==
    (pc = "remux" /\ total_bits > 0 /\ Len(Saved) >= 1) =>
        /\ Len(Saved[1]) >= HeaderBits
        /\ \A p \in 1..HeaderBits :
              p <= Len(Saved[1]) =>
                 Saved[1][p] % 2 = FormatBin(total_bits, HeaderBits)[p]
        /\ \A k \in 1..Len(Saved) : \A p \in 1..Len(Saved[k]) :
              ~IsHeaderSample(k, p) =>
                 Saved[k][p] = IF IsPayloadSample(k, p)
                               THEN (source0.frames[k][p] \div 2) * 2
                                        + data_binary[PayloadIndex(k, p) + 1]
                               ELSE source0.frames[k][p]

\* C20: embedding changes nothing but the low bit of the samples it writes:
\* the upper seven bits of every sample are those of the source, a sample
\* outside the written ranges is the source's, and the low bit of a written
\* sample is its header or payload bit.
C20_OnlyLowBit ==
    (pc \in {"loop", "remux"} /\ total_bits > 0) =>
        \A k \in 1..Len(Saved) :
            /\ Len(Saved[k]) = Len(source0.frames[k])
            /\ \A p \in 1..Len(Saved[k]) :
                  /\ Saved[k][p] \div 2 = source0.frames[k][p] \div 2
                  /\ IsHeaderSample(k, p) =>
                        Saved[k][p] % 2 = FormatBin(total_bits, HeaderBits)[p]
                  /\ IsPayloadSample(k, p) =>
                        Saved[k][p] % 2 = data_binary[PayloadIndex(k, p) + 1]
                  /\ (~IsHeaderSample(k, p) /\ ~IsPayloadSample(k, p)) =>
                        Saved[k][p] = source0.frames[k][p]

C20_Witness ==
    /\ pc = "remux" /\ total_bits = 16 /\ Len(Saved) = 2
    /\ Len(Saved[1]) = 36
    /\ Saved[1] # source0.frames[1]
    /\ Saved[2] # source0.frames[2]
    /\ \A p \in 1..12 : Saved[2][p] % 2 = data_binary[4 + p]

-----------------------------------------------------------------------------
(* More claims about the pipeline *)

\* what the covert writer makes of the source of this run when ffmpeg succeeds
CovertOutput ==
    Layer_write(variant, video_path, compress_json(e_ret.lsb_metadata, CompressionLevel), 0)

\* C21: in every encode with the covert channel enabled the container write
\* works on the covert writer's output: a temp file that is left is that
\* output, and the file encode returns with has the pixels of that output and
\* the tag encode compressed.
C21_CovertBeforeContainer ==
    (Encoded_ /\ use_lsb /\ altered = "none") =>
        /\ e_ret.temp.exists => e_ret.temp = CovertOutput.file
        /\ e_ret.kind = "return" =>
              /\ CovertOutput.kind = "True"
              /\ output_path.frames = CovertOutput.file.frames
              /\ AtomLayer_has_metadata(output_path)
              /\ AtomLayer_read(output_path)
                     = compress_json(e_ret.atom_metadata, CompressionLevel)

C21_Witness ==
    /\ Encoded_ /\ use_lsb /\ altered = "none" /\ variant = "mpx"
    /\ e_ret.kind = "return"
    /\ output_path.frames = CovertOutput.file.frames
    /\ output_path.frames # video_path.frames
    /\ AtomLayer_has_metadata(output_path)

-----------------------------------------------------------------------------
(* More claims about the covert layer *)

\* the file the read opened
ReadFrames == FramesOf(output)

\* the length the first 32 low bits of frame 0 of that file declare
DeclaredBits == IntOfBits(LowBits(ReadFrames[1], 0, HeaderBits))

\* C22: the covert read returns None, without raising and with no payload
\* taken, when the file yields no frame 0, or when the length L declared in
\* bits 0-31 of frame 0 has L <= 0 or L > max_frames x samples per frame.
C22_NoPayloadIsNone ==
    pc = "read" =>
        /\ ReadFrames = <<>> => r_ret = ReadNone
        /\ ( /\ ReadFrames # <<>>
             /\ Len(ReadFrames[1]) >= HeaderBits
             /\ \/ DeclaredBits <= 0
                \/ DeclaredBits > DefaultMaxFrames * Len(ReadFrames[1]) )
           => r_ret = ReadNone

\* a file with a frame 0 whose first 32 low bits declare more than fits
C22_Witness ==
    /\ pc = "read"
    /\ ReadFrames # <<>>
    /\ Len(ReadFrames[1]) >= HeaderBits
    /\ DeclaredBits > DefaultMaxFrames * Len(ReadFrames[1])
    /\ r_ret = ReadNone

\* the number of bits the read hands to _binary_to_text: the declared length,
\* or every payload sample of the file if the file holds fewer
CollectedBits ==
    Min(DeclaredBits, SumLen(ReadFrames) - HeaderBits)

\* C23: the conversion of the collected bits to bytes fails with an error
\* whenever their count is not a multiple of 8; a trailing group of fewer than
\* 8 bits is never absorbed silently.
C23_PartialGroupRaises ==
    ( /\ pc = "read"
      /\ ReadFrames # <<>>
      /\ Len(ReadFrames[1]) >= HeaderBits
      /\ DeclaredBits > 0
      /\ DeclaredBits <= DefaultMaxFrames * Len(ReadFrames[1])
      /\ CollectedBits % 8 # 0 )
    => r_ret = ReadRaise

\* the samples of source frame k (counted from 1) that can take payload bits
\* when written bits are already embedded
samplesAvailable(k, written) ==
    IF k = 1 /\ written < total_bits
    THEN Max(0, Len(video.frames[k]) - HeaderBits)
    ELSE Len(video.frames[k])

\* the sample after which the payload bits of frame k start
PayloadOffset(k, written) == IF k = 1 /\ written < total_bits THEN HeaderBits ELSE 0

\* one pass of the frame loop, seen from outside
FrameStep ==
    LET k == frame_count + 1
        n == Min(total_bits - bits_written, samplesAvailable(k, bits_written))
    IN  /\ bits_written' = bits_written + n
        /\ temp_dir' = Append(temp_dir, temp_dir'[k])
        /\ Len(temp_dir'[k]) = Len(video.frames[k])
        /\ \A i \in 1..n :
              temp_dir'[k][PayloadOffset(k, bits_written) + i] % 2
                  = data_binary[bits_written + i]
        /\ \A p \in 1..Len(video.frames[k]) :
              temp_dir'[k][p] \div 2 = video.frames[k][p] \div 2
        /\ bits_written = total_bits => temp_dir'[k] = video.frames[k]

\* C24: each pass of the frame loop embeds min(bits remaining, samples
\* available) payload bits in its frame; a frame reached after the payload is
\* exhausted is saved bit-identical to the source frame; and the saved
\* sequence, and the output made of it, has as many frames as the source
\* yields, in the source's order.
C24_FrameStreaming ==
    /\ [][(pc = "loop" /\ frame_count' = frame_count + 1) => FrameStep]_vars
    /\ [](pc = "remux" => Len(Saved) = Len(source0.frames))
    /\ []((pc \in {"done", "read"} /\ remux_rc = 0 /\ ~cut) =>
             /\ Len(output) = Len(source0.frames)
             /\ \A k \in 1..Len(output) : \A p \in 1..Len(output[k]) :
                   output[k][p] \div 2 = source0.frames[k][p] \div 2)

\* the payload ended in frame 0 and the second frame was saved as it was
C24_Witness ==
    /\ pc = "remux" /\ total_bits > 0 /\ bits_written = total_bits
    /\ Len(Saved) = 2
    /\ Saved[1] # source0.frames[1]
    /\ source0.frames[2][1] % 2 = 1
    /\ Saved[2] = source0.frames[2]

-----------------------------------------------------------------------------
(* The covert layer on one video of 10 frames of 64 x 64 pixels *)

\* 10 frames of 64 x 64 x 3 = 12,288 samples, all of them yielded by the source
ConcreteVideo(k) ==
    [frames |-> [f \in 1..10 |-> MkFrame(64 * 64 * Channels, k, f)],
     width |-> 64, height |-> 64, total_frames |-> 10]

\* the 200 bytes of the JSON document {"a":"cc...c"} with 192 times the letter c
ConcretePayload(c) ==
    <<123, 34, 97, 34, 58, 34>> \o [i \in 1..192 |-> c] \o <<34, 125>>

InitConcrete ==
    /\ video \in { ConcreteVideo(k) : k \in Fills }
    /\ source0 = video
    /\ ai_metadata \in { ConcretePayload(c) : c \in {65, 90, 97, 122} }
    /\ pc = "start"
    /\ bits_written = 0
    /\ frame_count = 0
    /\ temp_dir = "absent"
    /\ output = "absent"
    /\ remux_rc = "unset"
    /\ w_ret = "none"
    /\ r_ret = [kind |-> "unset"]
    /\ cut = FALSE
    /\ IdleCodec
    /\ IdlePipe

\* the write and the read of its output
NextConcrete ==
    \/ WriteBegin
    \/ WriteFrame
    \/ WriteLoopExit
    \/ WriteRemux
    \/ Read

SpecConcrete == InitConcrete /\ [][NextConcrete]_vars

\* the frames after frame 0 are saved as the source has them
LaterFramesKept == \A k \in 2..Len(Saved) : Saved[k] = source0.frames[k]

\* C25 as the code has it: for a 10-frame video of 12,288 samples per frame
\* and a 200-byte payload (1,600 bits) the covert write succeeds, writes all
\* 1,600 bits, modifies samples only among the first 1,632 of frame 0, and
\* the covert read of the output returns exactly the 200 bytes.
C25_ConcreteFrame0Only ==
    /\ pc # "raised"
    /\ pc \in {"done", "read"} => w_ret = "True"
    /\ pc = "remux" =>
          /\ total_bits = 1600 /\ bits_written = 1600
          /\ Len(Saved) = 10
          /\ LaterFramesKept
          /\ \A p \in (HeaderBits + 1601)..Len(Saved[1]) :
                Saved[1][p] = source0.frames[1][p]
    /\ (pc = "read" /\ remux_rc = 0) =>
          /\ Len(ai_metadata) = 200
          /\ r_ret = ReadBytes(ai_metadata)

C25_Witness ==
    /\ pc = "read" /\ remux_rc = 0
    /\ Len(ai_metadata) = 200
    /\ r_ret = ReadBytes(ai_metadata)
    /\ Len(output) = 10
    /\ output[1] # source0.frames[1]
    /\ output[2] = source0.frames[2]

\* C25 as stated: the write succeeds, modifies samples only in frame 0 and in
\* part of frame 1, and the covert read returns exactly the 200 bytes.
C25_ConcreteTwoFrames ==
    /\ pc # "raised"
    /\ pc \in {"done", "read"} => w_ret = "True"
    /\ pc = "remux" =>
          /\ Saved[1] # source0.frames[1]
          /\ Saved[2] # source0.frames[2]
          /\ \A k \in 3..Len(Saved) : Saved[k] = source0.frames[k]
    /\ (pc = "read" /\ remux_rc = 0) => r_ret = ReadBytes(ai_metadata)

-----------------------------------------------------------------------------
(* Claims about the counters and the header of the covert write *)

\* C26: in the covert write bits_written never exceeds the payload bit length
\* L and equals L whenever write returns success, for every source that
\* passed the capacity check, a source that yields fewer or smaller frames
\* than the capacity check counted included.
C26_WriteComplete ==
    (data_str.ok /\ pc # "start" /\ pc # "raised") =>
        /\ bits_written <= total_bits
        /\ w_ret = "True" => bits_written = total_bits

\* bits_written never goes down
BitsWrittenMonotone == [][bits_written' >= bits_written]_vars

\* the write took the payload: it passed the capacity check of line 79
WriteAccepted == data_str.ok /\ pc \notin {"start", "raised"}

\* C27: every payload bit length L the covert write accepts also passes the
\* header check of the covert read, 0 < L <= max_frames x samples per frame
\* with max_frames = 1000, so that the read of a written payload never
\* returns None.
C27_AcceptedPassesSanity ==
    WriteAccepted =>
        /\ 0 < total_bits
        /\ total_bits <= DefaultMaxFrames * bits_per_frame
        /\ (pc = "read" /\ remux_rc = 0 /\ ~cut) => r_ret # ReadNone

\* line 104
length_bin == FormatBin(total_bits, HeaderBits)

\* line 105: frame 0 of the source after the header embed
HeaderEmbedded == embed_stream_chunk(source0.frames[1], length_bin, 0)

\* C28: for every payload the capacity check accepted, the header embedded in
\* frame 0 is exactly 32 bits wide, its 32 low bits read back as L, and the
\* header embed writes no sample at offset 32 or beyond.
C28_HeaderWidth ==
    (WriteAccepted /\ total_bits > 0 /\ pc \in {"loop", "remux"} /\ Len(Saved) >= 1) =>
        /\ Len(length_bin) = HeaderBits
        /\ Len(Saved[1]) >= HeaderBits
        /\ IntOfBits(LowBits(Saved[1], 0, HeaderBits)) = total_bits
        /\ \A p \in (HeaderBits + 1)..Len(HeaderEmbedded) :
              HeaderEmbedded[p] = source0.frames[1][p]

\* C29: the covert write embeds the header into frame 0 if and only if the
\* payload bit length L is greater than zero; for L = 0 every frame, frame 0
\* included, is saved unmodified and write still returns True.
C29_ZeroLengthPayload ==
    WriteAccepted =>
        /\ (pc \in {"loop", "remux"} /\ Len(Saved) >= 1 /\ total_bits > 0) =>
              \A p \in 1..Min(HeaderBits, Len(Saved[1])) :
                  Saved[1][p] % 2 = length_bin[p]
        /\ (pc \in {"loop", "remux"} /\ total_bits = 0) =>
              \A k \in 1..Len(Saved) : Saved[k] = source0.frames[k]
        /\ (pc \in {"done", "read"} /\ total_bits = 0) =>
              /\ w_ret = "True"
              /\ (remux_rc = 0 /\ ~cut) => output = source0.frames

\* an empty payload written over pixels whose low bits are not all zero
C29_Witness ==
    /\ WriteAccepted /\ total_bits = 0
    /\ pc = "done" /\ w_ret = "True" /\ remux_rc = 0 /\ ~cut
    /\ Len(output) = 2
    /\ output = source0.frames
    /\ output[1][2] % 2 = 1

-----------------------------------------------------------------------------
(* Claims about MPXDecoder.decode as a whole *)

\* the tag is there and what it holds does not decompress
ContainerFails(f) ==
    AtomLayer_has_metadata(f) /\ decompress_json(AtomLayer_read(f)).kind = "raise"

\* C30: MPXDecoder.decode never raises, whatever the file and the state of its
\* two layers; a failure of the covert read, of the container read or of the
\* decompression of either blob only leaves the key of that layer out of the
\* result, and the other key is what its layer holds.
C30_DecodeTotal ==
    (variant = "mpx" /\ Decoded) =>
        /\ dec_ret.kind = "return"
        /\ CovertFails(output_path) => dec_ret.val.ai_metadata = Missing
        /\ ContainerFails(output_path) => dec_ret.val.file_info = Missing
        /\ ~AtomLayer_has_metadata(output_path) => dec_ret.val.file_info = Missing
        /\ ~CovertFails(output_path) =>
              dec_ret.val.ai_metadata = CovertDoc(output_path)
        /\ ~ContainerFails(output_path) =>
              dec_ret.val.file_info = ContainerDoc(output_path)

\* a tag that does not decompress over a covert document that does
C30_Witness ==
    /\ variant = "mpx" /\ Decoded /\ use_lsb
    /\ Encoded_ /\ e_ret.kind = "return"
    /\ ContainerFails(output_path)
    /\ ~CovertFails(output_path)
    /\ dec_ret.kind = "return"
    /\ dec_ret.val.file_info = Missing
    /\ dec_ret.val.ai_metadata # Missing
    /\ dec_ret.val.ai_metadata = Canon(e_ret.lsb_metadata)

====
